---- MODULE Spec2Model ----
(***************************************************************************)
(* Directory monitor with spike alerts and snapshot restore                *)
(* (Ransomeware/data_logger_gui_restore_alerts.py).                        *)
(*                                                                         *)
(* Paths are sequences of components: <<"mon","sub","a.txt">> is           *)
(* mon/sub/a.txt and <<>> is the empty string.  File contents are the      *)
(* values "v1", "v2".  time.time() is `clock`, in whole seconds.           *)
(***************************************************************************)
EXTENDS Integers, Sequences, FiniteSets, TLC

\* ------------------------------------------------------------------ bounds
MaxClock == 1
MaxEvents == 1
MaxLog == 1
MaxRestores == 1
MaxSelectEvents == 2
MaxCommands == 2
MaxLiveEvents == 2

\* ------------------------------------------------ defaults of the arguments
DEFAULT_SPIKE_WINDOW == 5
DEFAULT_SPIKE_THRESHOLD == 8
DEFAULT_ALERT_COOLDOWN == 60

\* --------------------------------------------------------------- the paths
TARGET_DIRECTORY == <<"mon">>

\* Files of the monitored tree, relative to TARGET_DIRECTORY.
RelFiles == { <<"sub", "a.txt">>, <<"b.txt">> }

\* File contents: ABSENT is "no file", PARTIAL is what an interrupted copy leaves.
ABSENT == "absent"
PARTIAL == "partial"
Contents == {"v1", "v2"}

\* str.lower() on a path component.
Lower(s) == CASE s = "A.TXT" -> "a.txt"
              [] s = "B.TXT" -> "b.txt"
              [] s = "SUB" -> "sub"
              [] OTHER -> s

LowerPath(p) == [i \in 1..Len(p) |-> Lower(p[i])]

\* os.path.basename / os.path.dirname
basename(p) == IF p = <<>> THEN "" ELSE p[Len(p)]

dirname(p) == IF p = <<>> THEN <<>> ELSE SubSeq(p, 1, Len(p) - 1)

IsPrefix(a, b) == Len(a) <= Len(b) /\ SubSeq(b, 1, Len(a)) = a

\* os.path.relpath(p, start) for a path below start; a path elsewhere is
\* reached through "..".
relpath(p, start) ==
    IF IsPrefix(start, p)
    THEN SubSeq(p, Len(start) + 1, Len(p))
    ELSE [i \in 1..Len(start) |-> ".."] \o p

\* os.path.normpath on a relative path: "." is dropped, "x/.." collapses.
RECURSIVE normpath_from(_, _)
normpath_from(done, rest) ==
    IF rest = <<>> THEN done
    ELSE LET c == Head(rest) IN
         IF c = "." THEN normpath_from(done, Tail(rest))
         ELSE IF c = ".." /\ done # <<>> /\ done[Len(done)] # ".."
              THEN normpath_from(SubSeq(done, 1, Len(done) - 1), Tail(rest))
              ELSE normpath_from(Append(done, c), Tail(rest))

normpath(p) == normpath_from(<<>>, p)

\* os.path.normcase: lower-cases on Windows, the identity on POSIX.
normcase(p, nt) == IF nt THEN LowerPath(p) ELSE p

\* os.path.abspath of a path that is absolute already: it is normalized.
abspath(p) == normpath(p)

\* os.path.join(TARGET_DIRECTORY, rel)
AbsOf(rel) == TARGET_DIRECTORY \o rel

\* ------------------------------------------------------------------ state
VARIABLES
    args,            \* the command line: files (given, tokens), spike_window, spike_threshold, alert_cooldown
    windows,         \* TRUE when os.path is ntpath
    clock,           \* time.time(), whole seconds
    live,            \* the monitored tree: relative path -> content
    snap,            \* SNAPSHOT_DIR: relative path -> content
    dups,            \* DUPLICATES_DIR: <<relative directory, file name>> -> content
    log_file,        \* LOG_FILE: [exists, lines], lines the header and the rows in file order
    q,               \* the queue between the observer thread and the GUI
    events,          \* MonitorGUI.events, newest first
    selected_index,  \* MonitorGUI.selected_index, 0 for None (indices are 1-based here)
    mod_deque,       \* MonitorGUI.mod_deque
    last_alert_ts,   \* MonitorGUI.last_alert_ts
    after_alerts,    \* payloads of the root.after(100, ...) callbacks not yet run
    popups,          \* the open alert windows, each waiting in wait_window; the last is on top
    grab,            \* an alert window holds the input grab (popup.grab_set())
    poll_armed,      \* root.after(200, self.poll_queue) is pending
    running,         \* root.mainloop() has not been quit
    recorded,        \* history: every (t, path) ever given to _record_mod_event
    alerts,          \* history: every alert fired: [at, paths, seen], seen the length of
                     \* recorded when it fired
    replaced,        \* history: for every restore copy that completed, [path, was], was the
                     \* content the file had when the copy began
    stack,           \* the Tk main thread: what it is in, innermost last (root.mainloop(),
                     \* a message box, popup.wait_window(), a handler's file operation)
    tkq,             \* the operator's clicks on the command buttons that Tk has not
                     \* dispatched yet: [id, cmd], oldest first
    applied,         \* history: the ids of the clicks whose handlers have been started
    disk,            \* the decryption tools' files: path -> content
    report           \* what the last run of a decryption tool reported

vars == << args, windows, clock, live, snap, dups, log_file, q, events, selected_index,
           mod_deque, last_alert_ts, after_alerts, popups, grab, poll_armed, running,
           recorded, alerts, replaced, stack, tkq, applied, disk, report >>

\* The Tk main thread and the operator's pending clicks.
dispatcher == << stack, tkq, applied >>

\* The decryption tools, crypto_utils.py and decrypt_gui.py: programs of their own.
decryptor == << disk, report >>

\* The monitor: everything else.
monitor == << args, windows, clock, live, snap, dups, log_file, q, events, selected_index,
              mod_deque, last_alert_ts, after_alerts, popups, grab, poll_armed, running,
              recorded, alerts, replaced >>

SPIKE_WINDOW_SEC == args.spike_window

SPIKE_THRESHOLD == args.spike_threshold

ALERT_COOLDOWN_SEC == args.alert_cooldown

\* --------------------------------------------------------- filter parsing
\* A token of --files is a path; it holds a "/" exactly when it has more than
\* one component.
RelTokens(tokens) == { tokens[i] : i \in { j \in 1..Len(tokens) : Len(tokens[j]) > 1 } }

BaseTokens(tokens) == { tokens[i] : i \in { j \in 1..Len(tokens) : Len(tokens[j]) = 1 } }

\* BASENAMES is None and RELPATHS is None: --files was empty or blank.
FilterIsNone == ~args.files.given

BASENAMES == { Lower(t[1]) : t \in BaseTokens(args.files.tokens) }

RELPATHS == { normcase(normpath(t), windows) : t \in RelTokens(args.files.tokens) }

\* A filter that lets every path through.
_is_monitored_any(abs_path) == TRUE

\* A filter that compares the basename as spelled.
_is_monitored_exact(abs_path) ==
    IF FilterIsNone THEN TRUE
    ELSE \/ normcase(normpath(relpath(abs_path, TARGET_DIRECTORY)), windows) \in RELPATHS
         \/ basename(abs_path) \in BASENAMES

_is_monitored_path(abs_path) ==
    IF FilterIsNone THEN TRUE
    ELSE LET rel == relpath(abs_path, TARGET_DIRECTORY)
             rel_norm == normcase(normpath(rel), windows)
         IN  \/ rel_norm \in RELPATHS
             \/ Lower(basename(abs_path)) \in BASENAMES

\* -------------------------------------------------------- watchdog handler
\* GuiEventHandler._enqueue: the queue after the call.
_enqueue(ev_type, src_path, dest_path) ==
    LET check_path == IF src_path # <<>> THEN src_path ELSE dest_path
        item == [ time |-> clock,
                  type |-> ev_type,
                  src_path |-> IF src_path # <<>> THEN abspath(src_path) ELSE <<>>,
                  dest_path |-> IF dest_path # <<>> THEN abspath(dest_path) ELSE <<>> ]
    IN  IF check_path = <<>> THEN q
        ELSE IF ~_is_monitored_path(abspath(check_path)) THEN q
        ELSE Append(q, item)

\* What a watchdog callback leaves alone: everything but the queue, and the
\* monitored tree, which is the environment's: the callback runs because
\* another process has changed it.
WatcherFrame ==
    UNCHANGED << dispatcher, decryptor, replaced, args, windows, clock, snap, dups, log_file, events, selected_index,
                 mod_deque, last_alert_ts, after_alerts, popups, grab, poll_armed, running,
                 recorded, alerts >>

on_created(src_path) ==
    /\ q' = _enqueue("created", src_path, <<>>)
    /\ WatcherFrame

on_deleted(src_path) ==
    /\ q' = _enqueue("deleted", src_path, <<>>)
    /\ WatcherFrame

\* A callback that records the modification in the window itself.
on_modified_recording(src_path, is_directory) ==
    /\ q' = IF is_directory THEN q ELSE _enqueue("modified", src_path, <<>>)
    /\ mod_deque' = IF q' # q
                    THEN Append(mod_deque, << clock, abspath(src_path) >>)
                    ELSE mod_deque
    /\ UNCHANGED << dispatcher, decryptor, replaced, args, windows, clock, snap, dups, log_file,
                    events, selected_index, last_alert_ts, after_alerts, popups, grab,
                    poll_armed, running, recorded, alerts >>

on_modified(src_path, is_directory) ==
    /\ q' = IF is_directory THEN q ELSE _enqueue("modified", src_path, <<>>)
    /\ WatcherFrame

on_moved(src_path, dest_path) ==
    /\ q' = _enqueue("moved", src_path, dest_path)
    /\ WatcherFrame

\* ------------------------------------------------------------ spike helpers
\* A pruning that drops the entry at the cutoff itself too.
RECURSIVE popleft_while_at_cutoff(_, _)
popleft_while_at_cutoff(deque, cutoff) ==
    IF deque # <<>> /\ deque[1][1] <= cutoff
    THEN popleft_while_at_cutoff(Tail(deque), cutoff)
    ELSE deque

\* while self.mod_deque and self.mod_deque[0][0] < cutoff: popleft()
RECURSIVE popleft_while(_, _)
popleft_while(deque, cutoff) ==
    IF deque # <<>> /\ deque[1][1] < cutoff
    THEN popleft_while(Tail(deque), cutoff)
    ELSE deque

\* MonitorGUI._record_mod_event at time t: the deque after the call.
_record_mod_event(deque, t, abs_path) ==
    popleft_while(Append(deque, <<t, abs_path>>), t - SPIKE_WINDOW_SEC)

\* A count that leaves out an entry at the cutoff itself.
_count_mods_after_cutoff(deque, now) ==
    LET cutoff == now - SPIKE_WINDOW_SEC
    IN  Cardinality({ i \in 1..Len(deque) : deque[i][1] > cutoff })

_count_mods(deque, now) ==
    LET cutoff == now - SPIKE_WINDOW_SEC
    IN  Cardinality({ i \in 1..Len(deque) : deque[i][1] >= cutoff })

InWindow(entry, cutoff) == entry[1] >= cutoff

_collect_recent_paths(deque, now) ==
    LET cutoff == now - SPIKE_WINDOW_SEC
        kept == SelectSeq(deque, LAMBDA e : InWindow(e, cutoff))
    IN  [i \in 1..Len(kept) |-> kept[i][2]]

\* list(dict.fromkeys(xs)): duplicates dropped, first occurrences kept in order.
RECURSIVE dict_fromkeys_from(_, _)
dict_fromkeys_from(done, rest) ==
    IF rest = <<>> THEN done
    ELSE IF \E i \in 1..Len(done) : done[i] = Head(rest)
         THEN dict_fromkeys_from(done, Tail(rest))
         ELSE dict_fromkeys_from(Append(done, Head(rest)), Tail(rest))

\* A list that keeps its duplicates.
keep_duplicates(xs) == xs

dict_fromkeys(xs) == dict_fromkeys_from(<<>>, xs)

\* A rule that lets an alert fire when exactly the cooldown has passed.
SpikeCondition_at_cooldown(deque, now, last) ==
    /\ _count_mods(deque, now) >= SPIKE_THRESHOLD
    /\ (now - last) >= ALERT_COOLDOWN_SEC

\* A rule that holds the next alert back while an alert is unanswered.
SpikeCondition_once_answered(deque, now, last) ==
    /\ _count_mods(deque, now) >= SPIKE_THRESHOLD
    /\ (now - last) > ALERT_COOLDOWN_SEC
    /\ popups = <<>> /\ after_alerts = <<>>

\* The condition of MonitorGUI._maybe_trigger_spike.
SpikeCondition(deque, now, last) ==
    /\ _count_mods(deque, now) >= SPIKE_THRESHOLD
    /\ (now - last) > ALERT_COOLDOWN_SEC

\* MonitorGUI._maybe_trigger_spike at time now, on a deque: what it leaves.
\* seen is the number of modifications recorded so far, for the history.
_maybe_trigger_spike(deque, now, seen) ==
    IF SpikeCondition(deque, now, last_alert_ts)
    THEN LET recent_paths == dict_fromkeys(_collect_recent_paths(deque, now))
         IN  /\ last_alert_ts' = now
             /\ after_alerts' = Append(after_alerts, recent_paths)
             /\ alerts' = Append(alerts, [at |-> now, paths |-> recent_paths, seen |-> seen])
    ELSE UNCHANGED << last_alert_ts, after_alerts, alerts >>

\* ---------------------------------------------------------------- the poll
\* The body of poll_queue's loop, over the whole queue: each event goes to the
\* front of the history, and a created, modified or moved one into the deque.
\* A poll that lists the queued events oldest first.
drain_oldest_first(rest, st) ==
    [ events |-> rest \o st.events, mod_deque |-> st.mod_deque, recorded |-> st.recorded ]

RECURSIVE drain(_, _)
drain(rest, st) ==
    IF rest = <<>> THEN st
    ELSE LET ev == Head(rest)
             track_path == IF ev.src_path # <<>> THEN ev.src_path ELSE ev.dest_path
             tracked == ev.type \in {"modified", "created", "moved"} /\ track_path # <<>>
         IN  drain(Tail(rest),
                   [ events |-> <<ev>> \o st.events,
                     mod_deque |-> IF tracked
                                   THEN _record_mod_event(st.mod_deque, clock, track_path)
                                   ELSE st.mod_deque,
                     recorded |-> IF tracked
                                  THEN Append(st.recorded, <<clock, track_path>>)
                                  ELSE st.recorded ])

poll_queue ==
    /\ running /\ poll_armed
    /\ LET st == drain(q, [ events |-> events, mod_deque |-> mod_deque,
                            recorded |-> recorded ])
           changed == q # <<>>
       IN  /\ q' = <<>>
           /\ events' = st.events
           /\ mod_deque' = st.mod_deque
           /\ recorded' = st.recorded
           /\ IF changed
              THEN _maybe_trigger_spike(st.mod_deque, clock, Len(st.recorded))
              ELSE UNCHANGED << last_alert_ts, after_alerts, alerts >>
    /\ poll_armed' = TRUE
    /\ UNCHANGED << dispatcher, decryptor, replaced, args, windows, clock, live, snap, dups, log_file, selected_index,
                    popups, grab, running >>

\* ------------------------------------------------------------ the file system
SNAPSHOT_DIR == <<"snapshots">>

DUPLICATES_DIR == <<"duplicates">>

\* A store maps the keys of its files to their contents.
Read(store, key) == IF key \in DOMAIN store THEN store[key] ELSE ABSENT

Write(store, key, content) ==
    IF Read(store, key) = content THEN store
    ELSE IF key \in DOMAIN store THEN [store EXCEPT ![key] = content]
    ELSE (key :> content) @@ store

\* A test that takes every path for a file.
isfile_any(store, key) == TRUE

\* os.path.isfile
isfile(store, key) == Read(store, key) # ABSENT

\* How a copy can end: completed; failed before the destination was opened;
\* failed while the destination was being written; failed after the content
\* was written, in copystat.
CopyOutcomes == {"ok", "error_before", "error_during", "error_after"}

\* shutil.copy2(src, dst): [ok, dst], dst the destination's content afterwards.
copy2(src_content, dst_content, outcome) ==
    IF src_content = ABSENT THEN [ok |-> FALSE, dst |-> dst_content]
    ELSE CASE outcome = "ok"           -> [ok |-> TRUE, dst |-> src_content]
           [] outcome = "error_before" -> [ok |-> FALSE, dst |-> dst_content]
           [] outcome = "error_during" -> [ok |-> FALSE, dst |-> PARTIAL]
           [] outcome = "error_after"  -> [ok |-> FALSE, dst |-> src_content]

\* ---------------------------------------------------------------- audit log
CSV_FIELDS == <<"timestamp_iso", "event_type", "event_path", "action_taken", "note">>

HeaderLine == [kind |-> "header", fields |-> CSV_FIELDS]

\* A row. event_path is a list of paths: a single path is a list of one, and
\* ";".join(paths) is the list itself.
Row(event_type, event_path, action_taken, note) ==
    [ kind |-> "row", timestamp_iso |-> clock, event_type |-> event_type,
      event_path |-> event_path, action_taken |-> action_taken, note |-> note ]

\* One path as the event_path field: the empty string names no path.
OnePath(p) == IF p = <<>> THEN <<>> ELSE <<p>>

\* csv_log that writes the header on every call.
csv_log_always_header(file, row) ==
    [ exists |-> TRUE, lines |-> file.lines \o <<HeaderLine, row>> ]

\* csv_log(row) on a log file: the file afterwards.
csv_log(file, row) ==
    LET need_header == ~file.exists
    IN  [ exists |-> TRUE,
          lines |-> IF need_header
                    THEN file.lines \o <<HeaderLine, row>>
                    ELSE Append(file.lines, row) ]

\* --------------------------------------------------------- snapshot helpers
\* snapshot_path_for(abs_path): the path below SNAPSHOT_DIR.
snapshot_path_for(abs_path) ==
    SNAPSHOT_DIR \o relpath(abs_path, TARGET_DIRECTORY)

\* The key of a snapshot path in the snapshot store, of a live path in the tree.
SnapKey(snapshot_path) == relpath(snapshot_path, SNAPSHOT_DIR)

LiveKey(abs_path) == relpath(abs_path, TARGET_DIRECTORY)

UpdateOutcomes == CopyOutcomes \cup {"mkdir_error"}

\* An update that reports success and copies nothing.
update_without_copy(store, abs_path, outcome) ==
    [ok |-> TRUE, snap |-> store, info |-> snapshot_path_for(abs_path)]

\* An update that keeps a snapshot file that is already there.
update_only_new(store, abs_path, outcome) ==
    LET sp == snapshot_path_for(abs_path)
    IN  IF Read(store, SnapKey(sp)) # ABSENT
        THEN [ok |-> TRUE, snap |-> store, info |-> sp]
        ELSE [ ok |-> TRUE,
               snap |-> Write(store, SnapKey(sp), Read(live, LiveKey(abs_path))),
               info |-> sp ]

\* update_snapshot_for(abs_path): [ok, snap], snap the snapshot store afterwards.
update_snapshot_for(store, abs_path, outcome) ==
    LET sp == snapshot_path_for(abs_path)
    IN  IF sp = <<>> THEN [ok |-> FALSE, snap |-> store, info |-> <<"no_snapshot_path">>]
        ELSE IF outcome = "mkdir_error" THEN [ok |-> FALSE, snap |-> store, info |-> <<"error">>]
        ELSE LET c == copy2(Read(live, LiveKey(abs_path)), Read(store, SnapKey(sp)), outcome)
             IN  [ ok |-> c.ok,
                   snap |-> Write(store, SnapKey(sp), c.dst),
                   info |-> IF c.ok THEN sp ELSE <<"error">> ]

\* A sweep that takes every file.
take_all(rel) == TRUE

\* create_initial_snapshot's choice of the files it takes.
take(rel) ==
    LET rel_norm == normcase(normpath(rel), windows)
    IN  IF FilterIsNone THEN TRUE
        ELSE \/ Lower(basename(rel)) \in BASENAMES
             \/ rel_norm \in RELPATHS

\* create_initial_snapshot(TARGET_DIRECTORY) on a tree and a snapshot store:
\* the store afterwards.  outcome gives each file's copy; "skipped" is a file the
\* sweep did not reach because os.makedirs raised before it.
SweepOutcomes == CopyOutcomes \cup {"skipped"}

create_initial_snapshot(tree, store, outcome) ==
    [ rel \in DOMAIN store \cup { r \in DOMAIN tree : tree[r] # ABSENT /\ take(r) } |->
        IF rel \in DOMAIN tree /\ tree[rel] # ABSENT /\ take(rel) /\ outcome[rel] # "skipped"
        THEN copy2(tree[rel], Read(store, rel), outcome[rel]).dst
        ELSE Read(store, rel) ]

\* ------------------------------------------------------------- the handlers
\* What the handlers of the operator's commands leave alone.
SpikeFrame ==
    UNCHANGED << mod_deque, last_alert_ts, after_alerts, popups, grab, recorded, alerts >>

ConfigFrame == UNCHANGED << args, windows, clock >>

\* MonitorGUI.on_select: the operator clicks row idx of the list.
on_select(idx) ==
    /\ running
    /\ idx \in 1..Len(events)
    /\ selected_index' = idx
    /\ UNCHANGED << live, snap, dups, log_file, q, events, poll_armed, running >>
    /\ SpikeFrame /\ ConfigFrame /\ UNCHANGED << dispatcher, decryptor, replaced >>

\* MonitorGUI.mark_ignore; outcome is how the snapshot update ends.
mark_ignore(outcome) ==
    /\ running
    /\ IF selected_index = 0
       THEN UNCHANGED << log_file, snap >>
       ELSE LET ev == events[selected_index]
            IN  /\ log_file' = csv_log(log_file,
                                       Row(ev.type, OnePath(ev.src_path), "ignored_by_user",
                                           <<"user indicated they performed the action">>))
                /\ snap' = IF ev.src_path # <<>> /\ isfile(live, LiveKey(ev.src_path))
                           THEN update_snapshot_for(snap, ev.src_path, outcome).snap
                           ELSE snap
    /\ UNCHANGED << live, dups, q, events, selected_index, poll_armed, running >>
    /\ SpikeFrame /\ ConfigFrame /\ UNCHANGED << dispatcher, decryptor, replaced >>

\* How restore_original can end: without a fault, or with the first call that
\* raises: os.makedirs of the destination, the restore copy in one of its three
\* ways, os.makedirs of the duplicates directory, the duplicate copy.
RestoreFaults == { "none", "mkdir_error",
                   "copy_before", "copy_during", "copy_after",
                   "dup_mkdir_error",
                   "dup_before", "dup_during", "dup_after" }

\* A restore copy that never fails.
CopyFault_ok(fault) == "ok"

CopyFault(fault) == CASE fault = "copy_before" -> "error_before"
                      [] fault = "copy_during" -> "error_during"
                      [] fault = "copy_after" -> "error_after"
                      [] OTHER -> "ok"

\* A duplicate copy that always fails half-way.
DupFault_during(fault) == "error_during"

DupFault(fault) == CASE fault = "dup_before" -> "error_before"
                     [] fault = "dup_during" -> "error_during"
                     [] fault = "dup_after" -> "error_after"
                     [] OTHER -> "ok"

\* A duplicate placed directly under DUPLICATES_DIR.
dup_path_flat(src_path, ts) ==
    [ dir |-> <<>>, base |-> basename(src_path), ts |-> ts, ext |-> "orig" ]

\* The duplicate's place: DUPLICATES_DIR/dirname(rel)/{base}.{ts}.orig
dup_path_for(src_path, ts) ==
    [ dir |-> dirname(relpath(src_path, TARGET_DIRECTORY)),
      base |-> basename(src_path), ts |-> ts, ext |-> "orig" ]

\* MonitorGUI.restore_original: what it does to the tree, the duplicates and the log.
restore_effect(fault) ==
    LET ev == events[selected_index]
        src_path == ev.src_path
        snapshot_path == snapshot_path_for(src_path)
        snap_content == Read(snap, SnapKey(snapshot_path))
        restored == copy2(snap_content, Read(live, LiveKey(src_path)), CopyFault(fault))
        dup_path == dup_path_for(src_path, clock)
        duplicated == copy2(snap_content, Read(dups, dup_path), DupFault(fault))
        overwrites == Append(replaced, [ path |-> src_path,
                                         was |-> Read(live, LiveKey(src_path)) ])
    IN  IF src_path = <<>>
        THEN UNCHANGED << live, dups, log_file, replaced >>
        ELSE IF snapshot_path = <<>> \/ ~isfile(snap, SnapKey(snapshot_path))
        THEN /\ log_file' = csv_log(log_file,
                                    Row(ev.type, OnePath(src_path),
                                        "restore_failed_no_snapshot", snapshot_path))
             /\ UNCHANGED << live, dups, replaced >>
        ELSE IF fault = "mkdir_error"
        THEN UNCHANGED << live, dups, log_file, replaced >>
        ELSE IF ~restored.ok
        THEN /\ live' = Write(live, LiveKey(src_path), restored.dst)
             /\ log_file' = csv_log(log_file,
                                    Row(ev.type, OnePath(src_path),
                                        "restore_failed_copy_error", <<"error">>))
             /\ UNCHANGED << dups, replaced >>
        ELSE IF fault = "dup_mkdir_error"
        THEN \* os.makedirs(dup_subdir) is outside any try: the handler ends here
             /\ live' = Write(live, LiveKey(src_path), restored.dst)
             /\ replaced' = overwrites
             /\ UNCHANGED << dups, log_file >>
        ELSE IF ~duplicated.ok
        THEN /\ live' = Write(live, LiveKey(src_path), restored.dst)
             /\ dups' = Write(dups, dup_path, duplicated.dst)
             /\ replaced' = overwrites
             /\ log_file' = csv_log(log_file,
                                    Row(ev.type, OnePath(src_path),
                                        "restore_but_duplicate_failed", <<"error">>))
        ELSE /\ live' = Write(live, LiveKey(src_path), restored.dst)
             /\ dups' = Write(dups, dup_path, duplicated.dst)
             /\ replaced' = overwrites
             /\ log_file' = csv_log(log_file,
                                    Row(ev.type, OnePath(src_path),
                                        "restored_and_duplicated", <<dup_path>>))

\* A restore that takes the burst for dealt with and empties the window.
restore_original_clearing(fault) ==
    /\ running
    /\ IF selected_index = 0
       THEN UNCHANGED << live, dups, log_file, replaced >>
       ELSE restore_effect(fault)
    /\ mod_deque' = <<>>
    /\ UNCHANGED << snap, q, events, selected_index, poll_armed, running >>
    /\ UNCHANGED << last_alert_ts, after_alerts, popups, grab, recorded, alerts >>
    /\ ConfigFrame /\ UNCHANGED << dispatcher, decryptor >>

restore_original(fault) ==
    /\ running
    /\ IF selected_index = 0
       THEN UNCHANGED << live, dups, log_file, replaced >>
       ELSE restore_effect(fault)
    /\ UNCHANGED << snap, q, events, selected_index, poll_armed, running >>
    /\ SpikeFrame /\ ConfigFrame /\ UNCHANGED << dispatcher, decryptor >>

\* A rebuild that sweeps into the store as it is.
rebuild_without_rmtree(rmtree_ok, left, outcome) ==
    create_initial_snapshot(live, snap, outcome)

\* shutil.rmtree(SNAPSHOT_DIR) and create_initial_snapshot(TARGET_DIRECTORY): the
\* snapshot store afterwards.  A failed rmtree leaves the files in left and
\* ends the handler.
rebuild(rmtree_ok, left, outcome) ==
    IF ~rmtree_ok THEN [ r \in DOMAIN snap |-> IF r \in left THEN snap[r] ELSE ABSENT ]
    ELSE create_initial_snapshot(live, [ r \in DOMAIN snap |-> ABSENT ], outcome)

\* MonitorGUI.refresh_snapshot.  yes is the operator's answer; rmtree_ok is how
\* shutil.rmtree ends (left is what a failed one leaves of the store); outcome
\* is how create_initial_snapshot goes, file by file.
refresh_snapshot(yes, rmtree_ok, left, outcome) ==
    /\ running
    /\ snap' = IF ~yes THEN snap ELSE rebuild(rmtree_ok, left, outcome)
    /\ UNCHANGED << live, dups, log_file, q, events, selected_index, poll_armed, running >>
    /\ SpikeFrame /\ ConfigFrame /\ UNCHANGED << dispatcher, decryptor, replaced >>

\* MonitorGUI.on_exit, answered OK: root.quit().
on_exit ==
    /\ running
    /\ running' = FALSE
    /\ UNCHANGED << live, snap, dups, log_file, q, events, selected_index, poll_armed >>
    /\ SpikeFrame /\ ConfigFrame /\ UNCHANGED << dispatcher, decryptor, replaced >>

\* ------------------------------------------------------------ the alert window
\* The callback of root.after(100, ...): _show_spike_alert up to popup.wait_window().
show_spike_alert ==
    /\ running
    /\ after_alerts # <<>>
    /\ popups' = Append(popups, Head(after_alerts))
    /\ after_alerts' = Tail(after_alerts)
    /\ grab' = TRUE
    /\ UNCHANGED << dispatcher, decryptor, replaced, args, windows, clock, live, snap, dups, log_file, q, events,
                    selected_index, mod_deque, last_alert_ts, poll_armed, running,
                    recorded, alerts >>

\* The loop of the "Yes" branch over recent_paths: [snap, file] afterwards.
RECURSIVE confirm_paths(_, _, _)
confirm_paths(recent_paths, outcome, st) ==
    IF recent_paths = <<>> THEN st
    ELSE LET p == Head(recent_paths)
             r == update_snapshot_for(st.snap, p, Head(outcome))
         IN  IF isfile(live, LiveKey(p))
             THEN confirm_paths(Tail(recent_paths), Tail(outcome),
                                [ snap |-> r.snap,
                                  file |-> IF r.ok
                                           THEN csv_log(st.file,
                                                        Row("snapshot_updated_by_user", OnePath(p),
                                                            "snapshot_updated", r.info))
                                           ELSE st.file ])
             ELSE confirm_paths(Tail(recent_paths), Tail(outcome), st)

\* _show_spike_alert from wait_window on, answered "Yes"; outcome gives how each
\* path's snapshot update ends.
alert_answer_yes(outcome) ==
    /\ running
    /\ popups # <<>>
    /\ LET recent_paths == popups[Len(popups)]
           st == confirm_paths(recent_paths, outcome, [snap |-> snap, file |-> log_file])
       IN  /\ Len(outcome) = Len(recent_paths)
           /\ snap' = st.snap
           /\ log_file' = st.file
    /\ popups' = SubSeq(popups, 1, Len(popups) - 1)
    /\ grab' = FALSE
    /\ UNCHANGED << dispatcher, decryptor, replaced, args, windows, clock, live, dups, q, events, selected_index,
                    mod_deque, last_alert_ts, after_alerts, poll_armed, running,
                    recorded, alerts >>

\* for idx, ev in enumerate(self.events): the first event naming a path of the alert.
Matching(recent_paths) ==
    { i \in 1..Len(events) :
        \E k \in 1..Len(recent_paths) :
            events[i].src_path = recent_paths[k] \/ events[i].dest_path = recent_paths[k] }

idx_to_select(recent_paths) ==
    IF Matching(recent_paths) = {} THEN 0
    ELSE CHOOSE i \in Matching(recent_paths) : \A j \in Matching(recent_paths) : i <= j

\* _show_spike_alert from wait_window on, answered "No" or closed.
alert_answer_no ==
    /\ running
    /\ popups # <<>>
    /\ LET recent_paths == popups[Len(popups)]
       IN  /\ log_file' = csv_log(log_file,
                                  Row("user_reported_not_me", recent_paths, "alert_shown",
                                      <<"count", Len(recent_paths)>>))
           /\ selected_index' = IF idx_to_select(recent_paths) # 0
                                THEN idx_to_select(recent_paths)
                                ELSE selected_index
    /\ popups' = SubSeq(popups, 1, Len(popups) - 1)
    /\ grab' = FALSE
    /\ UNCHANGED << dispatcher, decryptor, replaced, args, windows, clock, live, snap, dups, q, events,
                    mod_deque, last_alert_ts, after_alerts, poll_armed, running,
                    recorded, alerts >>

\* ------------------------------------------------------------ the environment
\* Another process writes, replaces or deletes a file of the monitored tree
\* (content ABSENT), or leaves the tree as it is.
TreeChange(rel, content) == live' = Write(live, rel, content)

NoTreeChange == UNCHANGED live

\* A second of wall-clock time passes.
Tick ==
    /\ clock' = clock + 1
    /\ UNCHANGED << dispatcher, decryptor, replaced, args, windows, live, snap, dups, log_file, q, events,
                    selected_index, mod_deque, last_alert_ts, after_alerts, popups, grab,
                    poll_armed, running, recorded, alerts >>

\* ------------------------------------------------------------------- start
\* time.time() when the program starts, far above any cooldown.
Epoch == 100

NoFilter == [given |-> FALSE, tokens |-> <<>>]

\* --files A.TXT and --files ./sub/a.txt
BasenameFilter == [given |-> TRUE, tokens |-> << <<"A.TXT">> >>]

RelpathFilter == [given |-> TRUE, tokens |-> << <<".", "sub", "a.txt">> >>]

\* The defaults of --spike-window, --spike-threshold and --alert-cooldown.
DefaultArgs(f) ==
    [ files |-> f, spike_window |-> DEFAULT_SPIKE_WINDOW,
      spike_threshold |-> DEFAULT_SPIKE_THRESHOLD, alert_cooldown |-> DEFAULT_ALERT_COOLDOWN ]

\* --spike-window 2 --spike-threshold 2 --alert-cooldown 3
SmallArgs(f) ==
    [ files |-> f, spike_window |-> 2, spike_threshold |-> 2, alert_cooldown |-> 3 ]

NoFiles == [ r \in RelFiles |-> ABSENT ]

AllOk == [ r \in RelFiles |-> "ok" ]

\* main() up to root.mainloop(), and MonitorGUI.__init__.
\* root.mainloop() is running and no click is pending.
NoDispatch == stack = <<"mainloop">> /\ tkq = <<>> /\ applied = <<>>

\* No decryption tool has run and it has no files.
NoReport == [ tool |-> "none", kind |-> "none", path |-> <<>>, out |-> <<>> ]

NoDecryptor == disk = << >> /\ report = NoReport

InitWith(a, w, tree) ==
    /\ args = a
    /\ windows = w
    /\ clock = Epoch
    /\ live = tree
    /\ snap = create_initial_snapshot(tree, NoFiles, AllOk)
    /\ dups = << >>
    /\ log_file = [exists |-> FALSE, lines |-> <<>>]
    /\ q = <<>>
    /\ events = <<>>
    /\ selected_index = 0
    /\ mod_deque = <<>>
    /\ last_alert_ts = 0
    /\ after_alerts = <<>>
    /\ popups = <<>>
    /\ grab = FALSE
    /\ poll_armed = TRUE
    /\ running = TRUE
    /\ recorded = <<>>
    /\ alerts = <<>>
    /\ replaced = <<>>
    /\ NoDispatch /\ NoDecryptor

\* The number of events the watcher has passed on so far.
Arrived == Len(q) + Len(events)

\* ------------------------------------------------- the spike detector alone
\* The watcher, the clock and the poll.  With the small arguments events arrive
\* freely; with the defaults they follow the timetable of the worked example.
\* The poll runs every 200 ms: the queue is empty whenever a second ends.
MaxSpikeEvents == 4
MaxSpikeClock == 5

F(n) == AbsOf(<< CASE n = 1 -> "f1" [] n = 2 -> "f2" [] n = 3 -> "f3" [] n = 4 -> "f4"
                   [] n = 5 -> "f5" [] n = 6 -> "f6" [] n = 7 -> "f7" [] OTHER -> "f8" >>)

\* Eight modifications of eight files in seconds 0 to 4, one at second 10, one
\* at second 15, seven in seconds 60 to 64 and one at second 65.
Timetable ==
    << [at |-> 0, path |-> F(1)], [at |-> 0, path |-> F(2)], [at |-> 1, path |-> F(3)],
       [at |-> 2, path |-> F(4)], [at |-> 2, path |-> F(5)], [at |-> 3, path |-> F(6)],
       [at |-> 4, path |-> F(7)], [at |-> 4, path |-> F(8)],
       [at |-> 10, path |-> F(1)], [at |-> 15, path |-> F(2)],
       [at |-> 60, path |-> F(1)], [at |-> 61, path |-> F(2)], [at |-> 61, path |-> F(3)],
       [at |-> 62, path |-> F(4)], [at |-> 63, path |-> F(5)], [at |-> 63, path |-> F(6)],
       [at |-> 64, path |-> F(7)], [at |-> 65, path |-> F(8)] >>

Timetabled == args.spike_threshold = DEFAULT_SPIKE_THRESHOLD

\* The next arrival of the timetable is due now, and is p.
Due(p) ==
    /\ Arrived < Len(Timetable)
    /\ Timetable[Arrived + 1].at = clock - Epoch
    /\ Timetable[Arrived + 1].path = p

NoneDue == Arrived < Len(Timetable) => Timetable[Arrived + 1].at > clock - Epoch

SpikeFiles == { AbsOf(r) : r \in RelFiles }

InitSpike ==
    \/ InitWith(SmallArgs(NoFilter), FALSE, NoFiles)
    \/ InitWith(DefaultArgs(NoFilter), FALSE, NoFiles)

NextSpike ==
    \/ /\ q = <<>>
       /\ IF Timetabled
          THEN NoneDue /\ Arrived < Len(Timetable)
          ELSE clock < Epoch + MaxSpikeClock
       /\ Tick
    \/ \E p \in SpikeFiles \cup { F(n) : n \in 1..8 } :
          /\ IF Timetabled THEN Due(p) ELSE p \in SpikeFiles /\ Arrived < MaxSpikeEvents
          /\ NoTreeChange /\ on_modified(p, FALSE)
    \/ \E p \in SpikeFiles :
          /\ ~Timetabled /\ Arrived < MaxSpikeEvents /\ p = AbsOf(<<"b.txt">>)
          /\ NoTreeChange /\ on_deleted(p)
    \/ poll_queue

SpecSpike == InitSpike /\ [][NextSpike]_vars

\* ---------------------------------------------- the operator's commands alone
\* The tree, the watcher, the poll and the commands of the main window, with the default
\* arguments: no alert fires within the bounds.  Every change of the tree is
\* reported by the observer; the poll empties the queue before a second ends.
EventBudget == Arrived < MaxEvents

LogBudget == Len(SelectSeq(log_file.lines, LAMBDA l : l.kind = "row")) < MaxLog

RestoreBudget == Len(replaced) < MaxRestores

\* The operator can use the main window: no alert window holds the grab.
OperatorFree == running /\ ~grab

\* At the start one file is in the tree, and so in the snapshot, and one is not.
StartTree == [ r \in RelFiles |-> IF r = <<"b.txt">> THEN ABSENT ELSE "v1" ]

InitRestore == InitWith(DefaultArgs(NoFilter), FALSE, StartTree)

NextRestore ==
    \/ running /\ q = <<>> /\ clock < Epoch + MaxClock /\ Tick
    \/ \E rel \in RelFiles, c \in Contents :
          running /\ EventBudget /\ TreeChange(rel, c) /\ on_modified(AbsOf(rel), FALSE)
    \/ \E rel \in RelFiles :
          running /\ EventBudget /\ TreeChange(rel, ABSENT) /\ on_deleted(AbsOf(rel))
    \/ poll_queue
    \/ \E i \in 1..MaxEvents : OperatorFree /\ on_select(i)
    \/ \E o \in UpdateOutcomes : OperatorFree /\ LogBudget /\ mark_ignore(o)
    \/ \E f \in RestoreFaults : OperatorFree /\ LogBudget /\ RestoreBudget /\ restore_original(f)

SpecRestore == InitRestore /\ [][NextRestore]_vars

\* ------------------------------------------------- the alert and its answer
\* The tree, the watcher, the poll and the alert window, with a threshold of two
\* modifications: the operator answers the alert while the tree goes on changing.
MaxConfirmEvents == 3

ConfirmBudget == Arrived < MaxConfirmEvents

\* How the updates of the confirmed paths can end, one outcome for each path.
\* A path that is not in the tree is not updated: its outcome is left at "ok".
\* A copy that fails before it opens the snapshot file leaves what a failed
\* os.makedirs leaves, so "mkdir_error" stands for both here.
ConfirmOutcomes ==
    IF popups = <<>> THEN { <<>> }
    ELSE { o \in [ 1..Len(popups[Len(popups)]) -> UpdateOutcomes \ {"error_before"} ] :
             \A k \in DOMAIN o :
                 ~isfile(live, LiveKey(popups[Len(popups)][k])) => o[k] = "ok" }

InitConfirm == InitWith(SmallArgs(NoFilter), FALSE, StartTree)

NextConfirm ==
    \/ running /\ q = <<>> /\ clock < Epoch + MaxClock /\ Tick
    \/ \E rel \in RelFiles, c \in Contents :
          running /\ ConfirmBudget /\ TreeChange(rel, c) /\ on_modified(AbsOf(rel), FALSE)
    \/ \E rel \in RelFiles :
          running /\ ConfirmBudget /\ TreeChange(rel, ABSENT) /\ on_deleted(AbsOf(rel))
    \/ poll_queue
    \/ show_spike_alert
    \/ \E o \in ConfirmOutcomes : alert_answer_yes(o)
    \/ alert_answer_no

SpecConfirm == InitConfirm /\ [][NextConfirm]_vars

\* ------------------------------------------------------- the scope filter
\* The whole program under --files, with a threshold of one modification: every
\* change of the tree is reported by the observer, in or out of scope, and the
\* operator uses every command that writes to the audit log.  Everything
\* happens within one second: the filter does not depend on the time.
TinyArgs(f) ==
    [ files |-> f, spike_window |-> 2, spike_threshold |-> 1, alert_cooldown |-> 3 ]

\* Another process renames a file of the tree.
TreeMove(src, dest) == live' = Write(Write(live, src, ABSENT), dest, Read(live, src))

AllUpdated == IF popups = <<>> THEN <<>> ELSE [ k \in 1..Len(popups[Len(popups)]) |-> "ok" ]

InitScope ==
    \E f \in {BasenameFilter, RelpathFilter}, w \in BOOLEAN :
        InitWith(TinyArgs(f), w, StartTree)

NextScope ==
    \/ \E rel \in RelFiles, c \in Contents :
          /\ running /\ EventBudget /\ ~isfile(live, rel)
          /\ TreeChange(rel, c) /\ on_created(AbsOf(rel))
    \/ \E rel \in RelFiles, c \in Contents :
          /\ running /\ EventBudget /\ isfile(live, rel)
          /\ TreeChange(rel, c) /\ on_modified(AbsOf(rel), FALSE)
    \/ \E rel \in RelFiles :
          /\ running /\ EventBudget /\ isfile(live, rel)
          /\ TreeChange(rel, ABSENT) /\ on_deleted(AbsOf(rel))
    \/ \E src \in RelFiles, dest \in RelFiles :
          /\ running /\ EventBudget /\ isfile(live, src) /\ src # dest
          /\ TreeMove(src, dest) /\ on_moved(AbsOf(src), AbsOf(dest))
    \/ poll_queue
    \/ \E i \in 1..MaxEvents : OperatorFree /\ on_select(i)
    \/ OperatorFree /\ LogBudget /\ mark_ignore("ok")
    \/ OperatorFree /\ LogBudget /\ RestoreBudget /\ restore_original("none")
    \/ OperatorFree /\ refresh_snapshot(TRUE, TRUE, {}, AllOk)
    \/ show_spike_alert
    \/ LogBudget /\ alert_answer_yes(AllUpdated)
    \/ LogBudget /\ alert_answer_no

SpecScope == InitScope /\ [][NextScope]_vars

\* ---------------------------------------------- the filter on its own
\* --files "," : tokens are asked for and none is left after stripping.
EmptyFilter == [given |-> TRUE, tokens |-> <<>>]

\* --files B.TXT,sub/../sub/a.txt
MixedFilter == [given |-> TRUE, tokens |-> << <<"B.TXT">>, <<"sub", "..", "sub", "a.txt">> >>]

\* --files SUB/a.txt
UpperRelFilter == [given |-> TRUE, tokens |-> << <<"SUB", "a.txt">> >>]

Filters == { NoFilter, EmptyFilter, BasenameFilter, RelpathFilter, MixedFilter, UpperRelFilter }

InitFilter ==
    \E f \in Filters, w \in BOOLEAN : InitWith(TinyArgs(f), w, StartTree)

NextFilter ==
    \/ \E rel \in RelFiles, c \in Contents :
          /\ running /\ EventBudget /\ ~isfile(live, rel)
          /\ TreeChange(rel, c) /\ on_created(AbsOf(rel))
    \/ \E rel \in RelFiles, c \in Contents :
          /\ running /\ EventBudget /\ isfile(live, rel)
          /\ TreeChange(rel, c) /\ on_modified(AbsOf(rel), FALSE)
    \/ \E rel \in RelFiles :
          /\ running /\ EventBudget /\ isfile(live, rel)
          /\ TreeChange(rel, ABSENT) /\ on_deleted(AbsOf(rel))
    \/ \E src \in RelFiles, dest \in RelFiles :
          /\ running /\ EventBudget /\ isfile(live, src) /\ src # dest
          /\ TreeMove(src, dest) /\ on_moved(AbsOf(src), AbsOf(dest))
    \/ poll_queue

SpecFilter == InitFilter /\ [][NextFilter]_vars

\* ------------------------------------------- selection while events arrive
\* Two events, so that one can arrive after the operator has selected the other.
InitSelect == InitWith(DefaultArgs(NoFilter), FALSE, StartTree)

NextSelect ==
    \/ \E rel \in RelFiles, c \in Contents :
          /\ running /\ Arrived < MaxSelectEvents /\ ~isfile(live, rel)
          /\ TreeChange(rel, c) /\ on_created(AbsOf(rel))
    \/ \E rel \in RelFiles, c \in Contents :
          /\ running /\ Arrived < MaxSelectEvents /\ isfile(live, rel)
          /\ TreeChange(rel, c) /\ on_modified(AbsOf(rel), FALSE)
    \/ \E rel \in RelFiles :
          /\ running /\ Arrived < MaxSelectEvents /\ isfile(live, rel)
          /\ TreeChange(rel, ABSENT) /\ on_deleted(AbsOf(rel))
    \/ poll_queue
    \/ \E i \in 1..MaxSelectEvents : OperatorFree /\ on_select(i)
    \/ OperatorFree /\ LogBudget /\ mark_ignore("ok")
    \/ OperatorFree /\ LogBudget /\ RestoreBudget /\ restore_original("none")

SpecSelect == InitSelect /\ [][NextSelect]_vars

\* ------------------------------------------------------------ the start itself
\* The program before main() has run: the tree as other programs left it, the
\* snapshot directory as an earlier run left it (os.makedirs(SNAPSHOT_DIR,
\* exist_ok=True) keeps what is there), no window yet.
PriorStores == [ RelFiles -> {ABSENT, "v2"} ]

StartTrees == [ RelFiles -> {ABSENT, "v1"} ]

InitStartup ==
    \E f \in {NoFilter, BasenameFilter}, tree \in StartTrees, prior \in PriorStores :
        /\ args = DefaultArgs(f)
        /\ windows = FALSE
        /\ clock = Epoch
        /\ live = tree
        /\ snap = prior
        /\ dups = << >>
        /\ log_file = [exists |-> FALSE, lines |-> <<>>]
        /\ q = <<>>
        /\ events = <<>>
        /\ selected_index = 0
        /\ mod_deque = <<>>
        /\ last_alert_ts = 0
        /\ after_alerts = <<>>
        /\ popups = <<>>
        /\ grab = FALSE
        /\ poll_armed = FALSE
        /\ running = FALSE
        /\ recorded = <<>>
        /\ alerts = <<>>
        /\ replaced = <<>>
        /\ NoDispatch /\ NoDecryptor
    /\ NoDispatch /\ NoDecryptor

\* main(): create_initial_snapshot(TARGET_DIRECTORY), the observer, the window
\* with its first root.after(200, poll_queue), root.mainloop().  outcome is how
\* the copy of each file ends.
main(outcome) ==
    /\ ~running /\ ~poll_armed
    /\ snap' = create_initial_snapshot(live, snap, outcome)
    /\ running' = TRUE
    /\ poll_armed' = TRUE
    /\ UNCHANGED << dispatcher, decryptor, replaced, args, windows, clock, live, dups, log_file, q, events,
                    selected_index, mod_deque, last_alert_ts, after_alerts, popups, grab,
                    recorded, alerts >>

NextStartup ==
    \/ \E outcome \in [ RelFiles -> CopyOutcomes ] : main(outcome)
    \/ \E rel \in RelFiles, c \in Contents :
          /\ running /\ EventBudget /\ isfile(live, rel)
          /\ TreeChange(rel, c) /\ on_modified(AbsOf(rel), FALSE)
    \/ poll_queue

SpecStartup == InitStartup /\ [][NextStartup]_vars

\* ------------------------------------------- the main thread, step by step
\* Tk runs every callback on the main thread, and only while the thread is in
\* an event loop: root.mainloop(), or the loop of a message box or of
\* popup.wait_window() that a callback has entered.  A handler's file
\* operations are frames that are no loops.
Loops == { "mainloop", "askyesno", "wait_window", "messagebox" }

Mutations == { "refresh", "ignore_update", "confirm_update", "restore_copy", "duplicate_save" }

Top == stack[Len(stack)]

push(frame) == Append(stack, frame)

pop == SubSeq(stack, 1, Len(stack) - 1)

swap(frame) == Append(pop, frame)

\* Callbacks that start whatever the main thread is doing.
InLoop_always == TRUE

InLoop == Top \in Loops

\* What no step of a handler assigns.
HandlerFrame ==
    UNCHANGED << decryptor, args, windows, clock, q, events, mod_deque, last_alert_ts,
                 poll_armed, running, recorded, alerts >>

Commands == { "refresh", "restore", "ignore" }

\* The operator clicks a command button of the main window; Tk queues the click.
click(cmd) ==
    /\ running /\ ~grab
    /\ Len(tkq) + Len(applied) < MaxCommands
    /\ tkq' = Append(tkq, [ id |-> Len(tkq) + Len(applied) + 1, cmd |-> cmd ])
    /\ UNCHANGED << stack, applied, live, snap, dups, log_file, replaced, selected_index,
                    after_alerts, popups, grab >>
    /\ HandlerFrame

\* Tk takes the oldest click and calls its command.
dispatch(cmd) ==
    /\ running /\ InLoop
    /\ tkq # <<>> /\ Head(tkq).cmd = cmd
    /\ tkq' = Tail(tkq)
    /\ applied' = Append(applied, Head(tkq).id)

\* refresh_snapshot up to messagebox.askyesno.
refresh_ask ==
    /\ dispatch("refresh")
    /\ stack' = push("askyesno")
    /\ grab' = TRUE
    /\ UNCHANGED << live, snap, dups, log_file, replaced, selected_index, after_alerts, popups >>
    /\ HandlerFrame

\* The operator answers No: refresh_snapshot returns.
refresh_decline ==
    /\ running /\ Top = "askyesno"
    /\ stack' = pop
    /\ grab' = FALSE
    /\ UNCHANGED << tkq, applied, live, snap, dups, log_file, replaced, selected_index,
                    after_alerts, popups >>
    /\ HandlerFrame

\* The operator answers Yes: shutil.rmtree begins.
refresh_accept ==
    /\ running /\ Top = "askyesno"
    /\ stack' = swap("refresh")
    /\ grab' = FALSE
    /\ UNCHANGED << tkq, applied, live, snap, dups, log_file, replaced, selected_index,
                    after_alerts, popups >>
    /\ HandlerFrame

\* rmtree and the sweep end; a failure is shown in a message box.
refresh_run(rmtree_ok, left, outcome) ==
    /\ running /\ Top = "refresh"
    /\ snap' = rebuild(rmtree_ok, left, outcome)
    /\ stack' = IF rmtree_ok THEN pop ELSE swap("messagebox")
    /\ grab' = ~rmtree_ok
    /\ UNCHANGED << tkq, applied, live, dups, log_file, replaced, selected_index,
                    after_alerts, popups >>
    /\ HandlerFrame

\* The operator closes a message box.
close_messagebox ==
    /\ running /\ Top = "messagebox"
    /\ stack' = pop
    /\ grab' = FALSE
    /\ UNCHANGED << tkq, applied, live, snap, dups, log_file, replaced, selected_index,
                    after_alerts, popups >>
    /\ HandlerFrame

\* mark_ignore up to the snapshot update: the record is written.
ignore_begin ==
    /\ dispatch("ignore")
    /\ IF selected_index = 0
       THEN /\ stack' = push("messagebox") /\ grab' = TRUE
            /\ UNCHANGED log_file
       ELSE LET ev == events[selected_index]
            IN  /\ log_file' = csv_log(log_file,
                                       Row(ev.type, OnePath(ev.src_path), "ignored_by_user",
                                           <<"user indicated they performed the action">>))
                /\ stack' = push("ignore_update")
                /\ UNCHANGED grab
    /\ UNCHANGED << live, snap, dups, replaced, selected_index, after_alerts, popups >>
    /\ HandlerFrame

\* mark_ignore: update_snapshot_for ends and the handler returns.
ignore_update(outcome) ==
    /\ running /\ Top = "ignore_update"
    /\ LET ev == events[selected_index]
       IN  snap' = IF ev.src_path # <<>> /\ isfile(live, LiveKey(ev.src_path))
                   THEN update_snapshot_for(snap, ev.src_path, outcome).snap
                   ELSE snap
    /\ stack' = pop
    /\ UNCHANGED << tkq, applied, live, dups, log_file, replaced, selected_index,
                    after_alerts, popups, grab >>
    /\ HandlerFrame

\* restore_original up to the restore copy.
restore_begin ==
    /\ dispatch("restore")
    /\ IF selected_index = 0 \/ events[selected_index].src_path = <<>>
       THEN /\ stack' = push("messagebox") /\ grab' = TRUE
            /\ UNCHANGED log_file
       ELSE LET ev == events[selected_index]
                snapshot_path == snapshot_path_for(ev.src_path)
            IN  IF ~isfile(snap, SnapKey(snapshot_path))
                THEN /\ log_file' = csv_log(log_file,
                                            Row(ev.type, OnePath(ev.src_path),
                                                "restore_failed_no_snapshot", snapshot_path))
                     /\ stack' = push("messagebox") /\ grab' = TRUE
                ELSE /\ stack' = push("restore_copy")
                     /\ UNCHANGED << log_file, grab >>
    /\ UNCHANGED << live, snap, dups, replaced, selected_index, after_alerts, popups >>
    /\ HandlerFrame

\* A restore that moves the snapshot file to the tree instead of copying it.
restore_moved ==
    /\ running /\ Top = "restore_copy"
    /\ LET src_path == events[selected_index].src_path
           snap_content == Read(snap, SnapKey(snapshot_path_for(src_path)))
       IN  /\ live' = Write(live, LiveKey(src_path), snap_content)
           /\ snap' = Write(snap, SnapKey(snapshot_path_for(src_path)), ABSENT)
           /\ replaced' = Append(replaced, [ path |-> src_path,
                                             was |-> Read(live, LiveKey(src_path)) ])
    /\ stack' = swap("duplicate_save")
    /\ UNCHANGED << tkq, applied, dups, log_file, selected_index, after_alerts,
                    popups, grab >>
    /\ HandlerFrame

\* shutil.copy2(snapshot_path, src_path) ends.
restore_copied ==
    /\ running /\ Top = "restore_copy"
    /\ LET src_path == events[selected_index].src_path
           snap_content == Read(snap, SnapKey(snapshot_path_for(src_path)))
       IN  /\ live' = Write(live, LiveKey(src_path),
                            copy2(snap_content, Read(live, LiveKey(src_path)), "ok").dst)
           /\ replaced' = Append(replaced, [ path |-> src_path,
                                             was |-> Read(live, LiveKey(src_path)) ])
    /\ stack' = swap("duplicate_save")
    /\ UNCHANGED << tkq, applied, snap, dups, log_file, selected_index, after_alerts,
                    popups, grab >>
    /\ HandlerFrame

\* shutil.copy2(snapshot_path, dup_path) ends, the record is written and the
\* message box of the result opens.
restore_saved ==
    /\ running /\ Top = "duplicate_save"
    /\ LET ev == events[selected_index]
           snap_content == Read(snap, SnapKey(snapshot_path_for(ev.src_path)))
           dup_path == dup_path_for(ev.src_path, clock)
       IN  /\ dups' = Write(dups, dup_path, copy2(snap_content, Read(dups, dup_path), "ok").dst)
           /\ log_file' = csv_log(log_file,
                                  Row(ev.type, OnePath(ev.src_path),
                                      "restored_and_duplicated", <<dup_path>>))
    /\ stack' = swap("messagebox")
    /\ grab' = TRUE
    /\ UNCHANGED << tkq, applied, live, snap, replaced, selected_index, after_alerts, popups >>
    /\ HandlerFrame

\* The callback of root.after(100, ...) up to popup.wait_window().
alert_open ==
    /\ running /\ InLoop
    /\ after_alerts # <<>>
    /\ popups' = Append(popups, Head(after_alerts))
    /\ after_alerts' = Tail(after_alerts)
    /\ grab' = TRUE
    /\ stack' = push("wait_window")
    /\ UNCHANGED << tkq, applied, live, snap, dups, log_file, replaced, selected_index >>
    /\ HandlerFrame

\* The operator presses Yes: wait_window returns and the loop over the paths begins.
alert_yes ==
    /\ running /\ Top = "wait_window"
    /\ stack' = swap("confirm_update")
    /\ grab' = FALSE
    /\ UNCHANGED << tkq, applied, live, snap, dups, log_file, replaced, selected_index,
                    after_alerts, popups >>
    /\ HandlerFrame

\* The loop over the paths ends and _show_spike_alert returns.
alert_updated(outcome) ==
    /\ running /\ Top = "confirm_update"
    /\ LET recent_paths == popups[Len(popups)]
           st == confirm_paths(recent_paths, outcome, [snap |-> snap, file |-> log_file])
       IN  /\ Len(outcome) = Len(recent_paths)
           /\ snap' = st.snap
           /\ log_file' = st.file
    /\ popups' = SubSeq(popups, 1, Len(popups) - 1)
    /\ stack' = pop
    /\ UNCHANGED << tkq, applied, live, dups, replaced, selected_index, after_alerts, grab >>
    /\ HandlerFrame

\* The operator presses No: the record, the preselection, the message box.
alert_no ==
    /\ running /\ Top = "wait_window"
    /\ LET recent_paths == popups[Len(popups)]
       IN  /\ log_file' = csv_log(log_file,
                                  Row("user_reported_not_me", recent_paths, "alert_shown",
                                      <<"count", Len(recent_paths)>>))
           /\ selected_index' = IF idx_to_select(recent_paths) # 0
                                THEN idx_to_select(recent_paths)
                                ELSE selected_index
    /\ popups' = SubSeq(popups, 1, Len(popups) - 1)
    /\ stack' = swap("messagebox")
    /\ grab' = TRUE
    /\ UNCHANGED << tkq, applied, live, snap, dups, replaced, after_alerts >>
    /\ HandlerFrame

InitDispatch ==
    \E f \in {NoFilter, BasenameFilter}, prior \in PriorStores :
        /\ args = TinyArgs(f)
        /\ windows = FALSE
        /\ clock = Epoch
        /\ live = StartTree
        /\ snap = create_initial_snapshot(live, prior, AllOk)
        /\ dups = << >>
        /\ log_file = [exists |-> FALSE, lines |-> <<>>]
        /\ q = <<>>
        /\ events = <<>>
        /\ selected_index = 0
        /\ mod_deque = <<>>
        /\ last_alert_ts = 0
        /\ after_alerts = <<>>
        /\ popups = <<>>
        /\ grab = FALSE
        /\ poll_armed = TRUE
        /\ running = TRUE
        /\ recorded = <<>>
        /\ alerts = <<>>
        /\ replaced = <<>>
        /\ NoDispatch /\ NoDecryptor

OneFails == [ r \in RelFiles |-> IF r = <<"sub", "a.txt">> THEN "error_before" ELSE "ok" ]

NextDispatch ==
    \/ \E rel \in RelFiles, c \in Contents :
          /\ running /\ EventBudget /\ isfile(live, rel)
          /\ TreeChange(rel, c) /\ on_modified(AbsOf(rel), FALSE)
    \/ InLoop /\ poll_queue
    \/ \E i \in 1..MaxEvents : InLoop /\ ~grab /\ on_select(i)
    \/ \E cmd \in Commands : click(cmd)
    \/ refresh_ask
    \/ refresh_decline
    \/ refresh_accept
    \/ \E rmtree_ok \in BOOLEAN, outcome \in {AllOk, OneFails} :
          refresh_run(rmtree_ok, {<<"b.txt">>}, outcome)
    \/ close_messagebox
    \/ ignore_begin
    \/ ignore_update("ok")
    \/ restore_begin
    \/ restore_copied
    \/ restore_saved
    \/ alert_open
    \/ alert_yes
    \/ alert_updated(AllUpdated)
    \/ alert_no

SpecDispatch == InitDispatch /\ [][NextDispatch]_vars

\* ----------------------------------------------------- the poll keeps going
\* The watcher, the poll and the operator's commands with every way they can
\* fail.  Tk runs the callback of root.after(200, self.poll_queue) once the
\* main thread is back in its event loop, and every handler returns: a poll
\* that has events to take is not put off for ever.
InitLive == InitWith(DefaultArgs(NoFilter), FALSE, StartTree)

NextLive ==
    \/ \E rel \in RelFiles :
          /\ running /\ Arrived < MaxLiveEvents /\ isfile(live, rel)
          /\ TreeChange(rel, "v2") /\ on_modified(AbsOf(rel), FALSE)
    \/ \E rel \in RelFiles :
          /\ running /\ Arrived < MaxLiveEvents /\ ~isfile(live, rel)
          /\ TreeChange(rel, "v2") /\ on_created(AbsOf(rel))
    \/ poll_queue
    \/ \E i \in 1..MaxLiveEvents : OperatorFree /\ on_select(i)
    \/ \E o \in UpdateOutcomes : OperatorFree /\ LogBudget /\ mark_ignore(o)
    \/ \E f \in RestoreFaults : OperatorFree /\ LogBudget /\ RestoreBudget /\ restore_original(f)

SpecLive == InitLive /\ [][NextLive]_vars /\ WF_vars(poll_queue)

\* ------------------------------------------------------ the decryption tools
\* crypto_utils.py (encrypt_file, decrypt_file) and decrypt_gui.py
\* (DecryptorApp.decrypt_action).  A file's content is [len, head, tail]: its
\* length in bytes, its first SALT_SIZE bytes and the bytes after them.  The
\* bytes after the salt are a Fernet token made with a key, or are none.
SALT_SIZE == 16

Passwords == { "pw1", "pw2" }

Salts == { "s1", "s2" }

ToolPaths == { <<"f">>, <<"f", ".enc">>, <<"g">>, <<"g", ".dec">> }

NoToken == [ key |-> <<>>, data |-> "" ]

\* No file at the path.
Missing == [ len |-> -1, head |-> "", tail |-> NoToken ]

\* A file of five bytes that was never encrypted.
Plain(data) == [ len |-> 5, head |-> data, tail |-> NoToken ]

\* derive_fernet_key(password, salt): PBKDF2 of the password under the salt.
derive_fernet_key(password, salt) == << password, salt >>

\* Fernet(key).encrypt(data)
fernet_encrypt(key, data) == [ key |-> key, data |-> data ]

\* Fernet(key).decrypt(token) returns the data when the token was made with
\* the key and raises InvalidToken otherwise.
fernet_ok(key, token) == token.key = key

\* What encrypt_file writes: salt + token.
Artifact(password, salt, data) ==
    [ len |-> SALT_SIZE + 100, head |-> salt,
      tail |-> fernet_encrypt(derive_fernet_key(password, salt), data) ]

\* A file that holds a salt and nothing after it, and a file of forty bytes
\* that no key decrypts.
SaltOnly == [ len |-> SALT_SIZE, head |-> "s1", tail |-> NoToken ]

Junk == [ len |-> 40, head |-> "junk", tail |-> [ key |-> <<"junk">>, data |-> "" ] ]

isfile_on(d, path) == path \in DOMAIN d /\ d[path] # Missing

\* encrypt_file(path, password): [kind, out, disk].
encrypt_file_result(d, path, password, salt) ==
    IF ~isfile_on(d, path)
    THEN [ kind |-> "FileNotFoundError", out |-> <<>>, disk |-> d ]
    ELSE [ kind |-> "ok", out |-> Append(path, ".enc"),
           disk |-> [ d EXCEPT ![Append(path, ".enc")] = Artifact(password, salt, d[path].head) ] ]

\* enc_path[:-4] if enc_path.endswith('.enc') else enc_path + '.dec'
out_path_for(enc_path) ==
    IF enc_path[Len(enc_path)] = ".enc"
    THEN SubSeq(enc_path, 1, Len(enc_path) - 1)
    ELSE Append(enc_path, ".dec")

\* A decrypt_file that checks nothing before it decrypts.
decrypt_file_unchecked(d, enc_path, password) ==
    [ kind |-> "ok", out |-> out_path_for(enc_path),
      disk |-> [ d EXCEPT ![out_path_for(enc_path)] = Plain(d[enc_path].tail.data) ] ]

\* crypto_utils.decrypt_file(enc_path, password): [kind, out, disk].
decrypt_file_result(d, enc_path, password) ==
    LET content == d[enc_path]
        salt == content.head
        token == content.tail
        key == derive_fernet_key(password, salt)
        out_path == out_path_for(enc_path)
    IN  IF ~isfile_on(d, enc_path)
        THEN [ kind |-> "FileNotFoundError", out |-> <<>>, disk |-> d ]
        ELSE IF content.len <= SALT_SIZE
        THEN [ kind |-> "ValueError", out |-> <<>>, disk |-> d ]
        ELSE IF ~fernet_ok(key, token)
        THEN [ kind |-> "InvalidToken", out |-> <<>>, disk |-> d ]
        ELSE IF isfile_on(d, out_path)
        THEN [ kind |-> "FileExistsError", out |-> <<>>, disk |-> d ]
        ELSE [ kind |-> "ok", out |-> out_path,
               disk |-> [ d EXCEPT ![out_path] = Plain(token.data) ] ]

\* DecryptorApp.decrypt_action with the file and the password of the form;
\* confirmed is the answer to "This will decrypt and overwrite the file".  The
\* kind is the message shown.
decrypt_action_result(d, path, pw, confirmed) ==
    LET content == d[path]
        salt == content.head
        token == IF content.len <= SALT_SIZE THEN NoToken ELSE content.tail
        key == derive_fernet_key(pw, salt)
    IN  IF ~isfile_on(d, path)
        THEN [ kind |-> "Please select a valid encrypted file.", out |-> <<>>, disk |-> d ]
        ELSE IF pw = ""
        THEN [ kind |-> "Please provide a password.", out |-> <<>>, disk |-> d ]
        ELSE IF ~confirmed
        THEN [ kind |-> "cancelled", out |-> <<>>, disk |-> d ]
        ELSE IF ~fernet_ok(key, token)
        THEN [ kind |-> "Incorrect password or file corrupted.", out |-> <<>>, disk |-> d ]
        ELSE [ kind |-> "YOUR FILE HAS BEEN DECRYPTED", out |-> path,
               disk |-> [ d EXCEPT ![path] = Plain(token.data) ] ]

\* A run of a tool: the disk and the report afterwards.
Ran(tool, path, r) ==
    /\ disk' = r.disk
    /\ report' = [ tool |-> tool, kind |-> r.kind, path |-> path, out |-> r.out ]
    /\ UNCHANGED << dispatcher, monitor >>

encrypt_file(path, password, salt) ==
    Ran("encrypt_file", path, encrypt_file_result(disk, path, password, salt))

decrypt_file(enc_path, password) ==
    Ran("decrypt_file", enc_path, decrypt_file_result(disk, enc_path, password))

decrypt_action(path, pw, confirmed) ==
    Ran("decrypt_action", path, decrypt_action_result(disk, path, pw, confirmed))

\* The files the tools find: f as plain text or not there, f.enc not there,
\* too short, junk or an artifact, g an artifact or not there, g.dec plain
\* text or not there.
InitDecrypt ==
    \E f \in { Missing, Plain("hello") },
       fe \in { Missing, SaltOnly, Junk, Artifact("pw1", "s1", "hello") },
       g \in { Missing, Artifact("pw1", "s2", "other") },
       gd \in { Missing, Plain("older") } :
        /\ args = DefaultArgs(NoFilter)
        /\ windows = FALSE
        /\ clock = Epoch
        /\ live = StartTree
        /\ snap = create_initial_snapshot(live, NoFiles, AllOk)
        /\ dups = << >>
        /\ log_file = [exists |-> FALSE, lines |-> <<>>]
        /\ q = <<>>
        /\ events = <<>>
        /\ selected_index = 0
        /\ mod_deque = <<>>
        /\ last_alert_ts = 0
        /\ after_alerts = <<>>
        /\ popups = <<>>
        /\ grab = FALSE
        /\ poll_armed = FALSE
        /\ running = FALSE
        /\ recorded = <<>>
        /\ alerts = <<>>
        /\ replaced = <<>>
        /\ NoDispatch
        /\ disk = [ p \in ToolPaths |->
                      CASE p = <<"f">> -> f
                        [] p = <<"f", ".enc">> -> fe
                        [] p = <<"g">> -> g
                        [] p = <<"g", ".dec">> -> gd ]
        /\ report = NoReport

NextDecrypt ==
    \/ \E password \in Passwords, salt \in Salts :
          encrypt_file(<<"f">>, password, salt)
    \/ \E enc_path \in { <<"f", ".enc">>, <<"g">> }, password \in Passwords :
          decrypt_file(enc_path, password)
    \/ \E path \in ToolPaths, pw \in Passwords \cup {""}, confirmed \in BOOLEAN :
          decrypt_action(path, pw, confirmed)

SpecDecrypt == InitDecrypt /\ [][NextDecrypt]_vars

\* ------------------------------------------ the watcher against the poll
\* The observer thread runs the watcher's callbacks whenever the tree changes,
\* whatever the main thread is doing; the main thread runs poll_queue one
\* statement at a time: the callback starts, each turn of its loop takes one
\* event off the queue, and queue.Empty ends the loop.
MaxWatchEvents == 2

\* The frames of poll_queue: "poll_changed" once an event has been taken.
PollFrames == { "poll", "poll_changed" }

\* What no statement of poll_queue assigns.
PollFrame ==
    UNCHANGED << tkq, applied, decryptor, replaced, args, windows, clock, live, snap, dups,
                 log_file, selected_index, popups, grab, running >>

\* Tk calls poll_queue: changed = False.
poll_begin ==
    /\ running /\ poll_armed /\ InLoop
    /\ poll_armed' = FALSE
    /\ stack' = push("poll")
    /\ UNCHANGED << q, events, mod_deque, recorded, last_alert_ts, after_alerts, alerts >>
    /\ PollFrame

\* One turn of the loop: get_nowait() returns an event.
poll_take ==
    /\ running /\ Top \in PollFrames
    /\ q # <<>>
    /\ LET st == drain(<< Head(q) >>, [ events |-> events, mod_deque |-> mod_deque,
                                        recorded |-> recorded ])
       IN  /\ events' = st.events
           /\ mod_deque' = st.mod_deque
           /\ recorded' = st.recorded
    /\ q' = Tail(q)
    /\ stack' = swap("poll_changed")
    /\ UNCHANGED << poll_armed, last_alert_ts, after_alerts, alerts >>
    /\ PollFrame

\* get_nowait() raises queue.Empty: the spike test if anything was taken, and
\* root.after(200, self.poll_queue).
poll_end ==
    /\ running /\ Top \in PollFrames
    /\ q = <<>>
    /\ IF Top = "poll_changed"
       THEN _maybe_trigger_spike(mod_deque, clock, Len(recorded))
       ELSE UNCHANGED << last_alert_ts, after_alerts, alerts >>
    /\ poll_armed' = TRUE
    /\ stack' = pop
    /\ UNCHANGED << q, events, mod_deque, recorded >>
    /\ PollFrame

InitWatch ==
    \E f \in {NoFilter, BasenameFilter} : InitWith(TinyArgs(f), FALSE, StartTree)

NextWatch ==
    \/ \E rel \in RelFiles :
          /\ running /\ Arrived < MaxWatchEvents /\ ~isfile(live, rel)
          /\ TreeChange(rel, "v2") /\ on_created(AbsOf(rel))
    \/ \E rel \in RelFiles :
          /\ running /\ Arrived < MaxWatchEvents /\ isfile(live, rel)
          /\ TreeChange(rel, "v2") /\ on_modified(AbsOf(rel), FALSE)
    \/ \E rel \in RelFiles :
          /\ running /\ Arrived < MaxWatchEvents /\ isfile(live, rel)
          /\ TreeChange(rel, ABSENT) /\ on_deleted(AbsOf(rel))
    \/ \E src \in RelFiles, dest \in RelFiles :
          /\ running /\ Arrived < MaxWatchEvents /\ isfile(live, src) /\ src # dest
          /\ TreeMove(src, dest) /\ on_moved(AbsOf(src), AbsOf(dest))
    \/ poll_begin
    \/ poll_take
    \/ poll_end
    \/ \E i \in 1..MaxWatchEvents : InLoop /\ ~grab /\ on_select(i)
    \/ close_messagebox
    \/ alert_open
    \/ alert_yes
    \/ alert_updated(AllUpdated)
    \/ alert_no

SpecWatch == InitWatch /\ [][NextWatch]_vars

\* ------------------------------------------ alerts while an alert is open
\* The watcher, the clock, the poll and the alert windows, with
\* --spike-window 2 --spike-threshold 1 --alert-cooldown 1: the cooldown ends
\* while the operator has not answered.  popup.wait_window() runs Tk's event
\* loop, so the timers of the poll and of the next alert go on firing.
MaxCooldownClock == 3
MaxCooldownEvents == 2

QuickArgs(f) ==
    [ files |-> f, spike_window |-> 2, spike_threshold |-> 1, alert_cooldown |-> 1 ]

InitCooldown == InitWith(QuickArgs(NoFilter), FALSE, StartTree)

NextCooldown ==
    \/ running /\ q = <<>> /\ clock < Epoch + MaxCooldownClock /\ Tick
    \/ \E rel \in RelFiles :
          /\ running /\ Arrived < MaxCooldownEvents /\ isfile(live, rel)
          /\ TreeChange(rel, "v2") /\ on_modified(AbsOf(rel), FALSE)
    \/ \E rel \in RelFiles :
          /\ running /\ Arrived < MaxCooldownEvents /\ isfile(live, rel)
          /\ TreeChange(rel, ABSENT) /\ on_deleted(AbsOf(rel))
    \/ poll_queue
    \/ show_spike_alert
    \/ alert_answer_yes(AllUpdated)
    \/ alert_answer_no

SpecCooldown == InitCooldown /\ [][NextCooldown]_vars

\* ------------------------------------------ the snapshot store over its life
\* Every operation that could touch a snapshot file, with the ways its copies
\* can fail: ingestion, the alert and its answers, ignore, restore, refresh
\* declined and confirmed.  Both files of the tree have a snapshot from the
\* start.
BothTree == [ r \in RelFiles |-> "v1" ]

InitStore == InitWith(TinyArgs(NoFilter), FALSE, BothTree)

NextStore ==
    \/ \E rel \in RelFiles :
          /\ running /\ EventBudget /\ isfile(live, rel)
          /\ TreeChange(rel, "v2") /\ on_modified(AbsOf(rel), FALSE)
    \/ \E rel \in RelFiles :
          /\ running /\ EventBudget /\ isfile(live, rel)
          /\ TreeChange(rel, ABSENT) /\ on_deleted(AbsOf(rel))
    \/ InLoop /\ poll_queue
    \/ \E i \in 1..MaxEvents : InLoop /\ ~grab /\ on_select(i)
    \/ \E cmd \in Commands : click(cmd)
    \/ refresh_ask
    \/ refresh_decline
    \/ refresh_accept
    \/ \E rmtree_ok \in BOOLEAN, outcome \in {AllOk, OneFails} :
          refresh_run(rmtree_ok, {<<"b.txt">>}, outcome)
    \/ close_messagebox
    \/ ignore_begin
    \/ \E o \in UpdateOutcomes : ignore_update(o)
    \/ restore_begin
    \/ restore_copied
    \/ restore_saved
    \/ alert_open
    \/ alert_yes
    \/ \E o \in ConfirmOutcomes : alert_updated(o)
    \/ alert_no

SpecStore == InitStore /\ [][NextStore]_vars

\* ------------------------------------------ ignore, then restore
\* The watcher, the poll and the Ignore and Restore buttons, the main thread
\* step by step, with the default arguments (no alert within the bounds).
\* Every change of the tree changes a file's content, so that a file that was
\* changed twice has had three contents.
MaxIgnoreEvents == 2

InitIgnore == InitWith(DefaultArgs(NoFilter), FALSE, StartTree)

NextIgnore ==
    \/ \E rel \in RelFiles, c \in Contents :
          /\ running /\ Arrived < MaxIgnoreEvents /\ ~isfile(live, rel)
          /\ TreeChange(rel, c) /\ on_created(AbsOf(rel))
    \/ \E rel \in RelFiles, c \in Contents :
          /\ running /\ Arrived < MaxIgnoreEvents /\ isfile(live, rel) /\ Read(live, rel) # c
          /\ TreeChange(rel, c) /\ on_modified(AbsOf(rel), FALSE)
    \/ \E rel \in RelFiles :
          /\ running /\ Arrived < MaxIgnoreEvents /\ isfile(live, rel)
          /\ TreeChange(rel, ABSENT) /\ on_deleted(AbsOf(rel))
    \/ InLoop /\ poll_queue
    \/ \E i \in 1..MaxIgnoreEvents : InLoop /\ ~grab /\ on_select(i)
    \/ \E cmd \in {"ignore", "restore"} : click(cmd)
    \/ ignore_begin
    \/ \E o \in UpdateOutcomes : ignore_update(o)
    \/ restore_begin
    \/ restore_copied
    \/ restore_saved
    \/ close_messagebox

SpecIgnore == InitIgnore /\ [][NextIgnore]_vars

\* ------------------------------------------------------------------ claims
\* The entries of a history of recorded modifications that lie in the window
\* ending at now.
WindowOf(rec, now) == { i \in 1..Len(rec) : rec[i][1] >= now - SPIKE_WINDOW_SEC }

\* A poll that took at least one event off the queue.
IngestingPoll == q # <<>> /\ q' = <<>>

\* No alert has fired within the cooldown before now.
Quiet == alerts = <<>> \/ clock - alerts[Len(alerts)].at > ALERT_COOLDOWN_SEC

\* A poll that ingests events fires one alert when the modifications recorded
\* within the window number at least the threshold and no alert fired within
\* the cooldown; nothing else fires an alert.
BurstRule ==
    IF IngestingPoll /\ Cardinality(WindowOf(recorded', clock)) >= SPIKE_THRESHOLD /\ Quiet
    THEN /\ Len(alerts') = Len(alerts) + 1
         /\ SubSeq(alerts', 1, Len(alerts)) = alerts
         /\ alerts'[Len(alerts')].at = clock
    ELSE alerts' = alerts

EightPaths == [ n \in 1..8 |-> F(n) ]

\* The worked example: no alert before the eighth event is ingested; then one
\* alert, fired at second 4 with the eight paths, through the events of
\* seconds 10 and 15 and the first seven of the second burst; a second alert
\* at second 65.
TimetableOutcome ==
    Timetabled =>
        /\ Len(events) < 8 => alerts = <<>>
        /\ Len(events) >= 8 =>
              /\ Len(alerts) >= 1
              /\ alerts[1].at = Epoch + 4
              /\ alerts[1].paths = EightPaths
        /\ Len(events) \in 8..17 => Len(alerts) = 1
        /\ Len(events) = 18 => Len(alerts) = 2 /\ alerts[2].at = Epoch + 65

\* C2: a burst of at least threshold modifications within the window fires
\* exactly one alert, a burst within the cooldown of an alert fires none, a
\* burst after the cooldown fires again; with window 5, threshold 8 and
\* cooldown 60 the timetable of the example gives one alert with eight paths
\* at second 4, none at seconds 10 and 15, and a second alert at second 65.
C2_BurstAlerts == []TimetableOutcome /\ [][BurstRule]_vars

C2_Witness ==
    Timetabled /\ Len(events) = 18 /\ Len(alerts) = 2 /\ Len(alerts[1].paths) = 8

\* C3: any two alerts are more than the cooldown apart, and last_alert_ts is
\* the time of the last alert fired (0 before the first).
C3_CooldownSeparates ==
    /\ \A i \in 1..Len(alerts), j \in 1..Len(alerts) :
          i < j => alerts[j].at - alerts[i].at > ALERT_COOLDOWN_SEC
    /\ last_alert_ts = IF alerts = <<>> THEN 0 ELSE alerts[Len(alerts)].at

C3_Witness ==
    /\ Len(alerts) >= 2
    /\ alerts[2].at - alerts[1].at = ALERT_COOLDOWN_SEC + 1

\* C8: the count at the current time is the number of modifications ever
\* recorded whose time is within the window; after a modification is recorded
\* no entry kept is older than the window that ended then; and pruning a
\* second time with the same cutoff changes neither the deque nor the count.
C8_WindowCount ==
    /\ _count_mods(mod_deque, clock) = Cardinality(WindowOf(recorded, clock))
    /\ recorded # <<>> =>
          \A i \in 1..Len(mod_deque) :
              mod_deque[i][1] >= recorded[Len(recorded)][1] - SPIKE_WINDOW_SEC
    /\ \A cutoff \in (Epoch - SPIKE_WINDOW_SEC)..(clock + 1) :
          LET once == popleft_while(mod_deque, cutoff)
              twice == popleft_while(once, cutoff)
          IN  twice = once /\ _count_mods(twice, clock) = _count_mods(once, clock)

\* Entries were pruned, one kept entry has left the window and one is in it.
C8_Witness ==
    /\ Len(mod_deque) < Len(recorded)
    /\ _count_mods(mod_deque, clock) < Len(mod_deque)
    /\ _count_mods(mod_deque, clock) > 0
    /\ popleft_while(mod_deque, clock - SPIKE_WINDOW_SEC) # mod_deque

\* The modifications an alert saw in its window, by the history.
AlertWindow(a) == { i \in 1..a.seen : recorded[i][1] >= a.at - SPIKE_WINDOW_SEC }

FirstSeen(a, p) == CHOOSE i \in AlertWindow(a) :
                      /\ recorded[i][2] = p
                      /\ \A j \in AlertWindow(a) : recorded[j][2] = p => i <= j

\* C9: the payload of an alert holds every path of the window once, no other
\* path, in the order of first occurrence.
C9_PayloadIsWindow ==
    \A n \in 1..Len(alerts) :
        LET a == alerts[n] IN
        /\ { a.paths[k] : k \in 1..Len(a.paths) } = { recorded[i][2] : i \in AlertWindow(a) }
        /\ \A k \in 1..Len(a.paths), l \in 1..Len(a.paths) :
              k < l => /\ a.paths[k] # a.paths[l]
                       /\ FirstSeen(a, a.paths[k]) < FirstSeen(a, a.paths[l])

\* An alert over a window that holds two paths, one of them more than once.
C9_Witness ==
    \E n \in 1..Len(alerts) :
        LET a == alerts[n] IN
        /\ Len(a.paths) = 2
        /\ Cardinality(AlertWindow(a)) > 2

\* ------------------------------------------------- claims about Restore
\* The Restore command has an event with a source path to work on.
RestoreReady == OperatorFree /\ selected_index # 0 /\ events[selected_index].src_path # <<>>

RestorePath == events[selected_index].src_path

RestoreRel == relpath(RestorePath, TARGET_DIRECTORY)

\* The content of the snapshot file of the selected path, ABSENT when there is none.
RestoreSnapshot == Read(snap, RestoreRel)

\* {basename}.{timestamp}.orig under the duplicates root, in the path's relative directory.
RestoreDuplicate ==
    [ dir |-> dirname(RestoreRel), base |-> basename(RestorePath), ts |-> clock, ext |-> "orig" ]

\* A step of Restore on a path that has a snapshot file, in which the restore
\* copy completes.
RestoreCopies ==
    RestoreReady /\ RestoreSnapshot # ABSENT /\ Len(replaced') > Len(replaced)

RowsOf(file) == SelectSeq(file.lines, LAMBDA l : l.kind = "row")

\* The rows this step appended to the audit log.
Written == SubSeq(RowsOf(log_file'), Len(RowsOf(log_file)) + 1, Len(RowsOf(log_file')))

\* This step appended exactly one row, with this action, naming this path.
WrittenOne(action_taken, path) ==
    /\ SubSeq(log_file'.lines, 1, Len(log_file.lines)) = log_file.lines
    /\ Len(Written) = 1
    /\ Written[1].action_taken = action_taken
    /\ Written[1].event_path = <<path>>

\* The step changes no file of the store except the one at key.
OnlyChanges(before, after, key) ==
    \A k \in (DOMAIN before \cup DOMAIN after) \ {key} : Read(after, k) = Read(before, k)

LastRow == RowsOf(log_file)[Len(RowsOf(log_file))]

\* C4: a restore of a path that has a snapshot file, run without an I/O error,
\* leaves the path with the snapshot's content, writes one duplicate named
\* {basename}.{timestamp}.orig in the path's relative directory under the
\* duplicates root with the snapshot's content, changes no other file, and
\* appends exactly one record, restored_and_duplicated, for the path.
C4_RestoreFromSnapshot ==
    [][ (RestoreCopies /\ restore_original("none")) =>
            /\ Read(live', RestoreRel) = RestoreSnapshot
            /\ OnlyChanges(live, live', RestoreRel)
            /\ Read(dups', RestoreDuplicate) = RestoreSnapshot
            /\ OnlyChanges(dups, dups', RestoreDuplicate)
            /\ snap' = snap
            /\ WrittenOne("restored_and_duplicated", RestorePath) ]_vars

\* A deleted file has been brought back: the restore found the path absent and
\* left it with its snapshot's content, with a duplicate and the record.
C4_Witness ==
    /\ replaced # <<>>
    /\ replaced[Len(replaced)].was = ABSENT
    /\ log_file.exists
    /\ LastRow.action_taken = "restored_and_duplicated"
    /\ LastRow.event_path = <<replaced[Len(replaced)].path>>
    /\ LET rel == relpath(replaced[Len(replaced)].path, TARGET_DIRECTORY)
       IN  /\ Read(live, rel) = Read(snap, rel)
           /\ Read(live, rel) # ABSENT
           /\ \E k \in DOMAIN dups : k.dir = dirname(rel) /\ dups[k] = Read(snap, rel)

\* C5: a restore of a path that has no snapshot file changes nothing in the
\* tree, the snapshot store or the duplicates store, appends exactly one
\* record, restore_failed_no_snapshot, for the path, and leaves the main loop
\* running with the poll armed, however the file system would have behaved.
C5_RestoreWithoutSnapshot ==
    [][ (RestoreReady /\ RestoreSnapshot = ABSENT) =>
            \A f \in RestoreFaults :
                restore_original(f) =>
                    /\ UNCHANGED << live, snap, dups >>
                    /\ WrittenOne("restore_failed_no_snapshot", RestorePath)
                    /\ running' /\ poll_armed' ]_vars

\* A file created after the snapshot was taken was selected and Restore was
\* refused: the file is in the tree, no snapshot of it exists, nothing was
\* restored or duplicated.
C5_Witness ==
    /\ log_file.exists
    /\ LastRow.action_taken = "restore_failed_no_snapshot"
    /\ selected_index # 0
    /\ LastRow.event_path = <<events[selected_index].src_path>>
    /\ Read(live, relpath(events[selected_index].src_path, TARGET_DIRECTORY)) # ABSENT
    /\ Read(snap, relpath(events[selected_index].src_path, TARGET_DIRECTORY)) = ABSENT
    /\ dups = << >> /\ replaced = <<>>
    /\ running /\ poll_armed

\* The ways the duplicate step of a restore can fail.
DuplicateFaults == { "dup_mkdir_error", "dup_before", "dup_during", "dup_after" }

\* C6: when the duplicate step of a restore fails, in creating the duplicates
\* subdirectory or in copying, the live file has the snapshot's content and
\* exactly one record is appended, restore_but_duplicate_failed.
C6_DuplicateFailureRecorded ==
    [][ \A f \in DuplicateFaults :
            (RestoreReady /\ RestoreSnapshot # ABSENT /\ restore_original(f)) =>
                /\ Read(live', RestoreRel) = RestoreSnapshot
                /\ WrittenOne("restore_but_duplicate_failed", RestorePath) ]_vars

\* C7 as stated: after a successful restore of a file that was present, the
\* content the file had immediately before is held by a duplicate of the file.
C7_SuspiciousVersionKept ==
    [][ (RestoreCopies /\ Read(live, RestoreRel) # ABSENT /\ restore_original("none")) =>
            \E k \in DOMAIN dups' :
                /\ k.base = basename(RestorePath) /\ k.dir = dirname(RestoreRel)
                /\ dups'[k] = Read(live, RestoreRel) ]_vars

\* C7: after a successful restore the duplicate written holds the content the
\* file has after the restore, the snapshot's; when the file's content before
\* the restore differed from the snapshot's, the restore adds no duplicate
\* holding it.
C7_DuplicateKeepsSnapshotCopy ==
    [][ (RestoreCopies /\ Read(live, RestoreRel) # ABSENT /\ restore_original("none")) =>
            /\ Read(dups', RestoreDuplicate) = Read(live', RestoreRel)
            /\ Read(live, RestoreRel) # RestoreSnapshot =>
                  \A k \in DOMAIN dups' :
                      dups'[k] = Read(live, RestoreRel) =>
                          k \in DOMAIN dups /\ dups[k] = dups'[k] ]_vars

\* A file rewritten with other content was restored: its content before the
\* restore differed from the snapshot's and no duplicate holds it.
C7_Witness ==
    /\ replaced # <<>>
    /\ log_file.exists
    /\ LastRow.action_taken = "restored_and_duplicated"
    /\ LET was == replaced[Len(replaced)].was
           rel == relpath(replaced[Len(replaced)].path, TARGET_DIRECTORY)
       IN  /\ was \notin {ABSENT, Read(snap, rel)}
           /\ Read(live, rel) = Read(snap, rel)
           /\ dups # << >>
           /\ \A k \in DOMAIN dups : dups[k] # was /\ dups[k] = Read(snap, rel)

\* ------------------------------------------- claims about the alert's answer
\* The paths of the alert window on top.
Confirmed == popups[Len(popups)]

\* The step closes the alert window on top.
AlertCloses == running /\ popups # <<>> /\ Len(popups') < Len(popups)

\* The rows this step appended that are tagged snapshot_updated_by_user and name path.
UpdateRows(path) ==
    { i \in 1..Len(Written) :
        /\ Written[i].event_type = "snapshot_updated_by_user"
        /\ Written[i].event_path = <<path>> }

\* The step appended rows tagged snapshot_updated_by_user and nothing else.
OnlyUpdateRows ==
    /\ SubSeq(log_file'.lines, 1, Len(log_file.lines)) = log_file.lines
    /\ \A i \in 1..Len(Written) : Written[i].event_type = "snapshot_updated_by_user"

\* Path k of the confirmed alert is in the tree and its update ends well.
Updated(o, k) ==
    Read(live, relpath(Confirmed[k], TARGET_DIRECTORY)) # ABSENT /\ o[k] = "ok"

\* C10 as stated: on "Yes" every path of the alert that is in the tree and
\* whose update succeeds has its snapshot set to the live content and gets
\* exactly one snapshot_updated_by_user record; every path that is absent or
\* whose update fails keeps its snapshot as it was and gets no such record.
C10_FailedUpdateLeavesSnapshot ==
    [][ AlertCloses =>
            \A o \in ConfirmOutcomes :
                alert_answer_yes(o) =>
                    /\ OnlyUpdateRows
                    /\ \A k \in 1..Len(Confirmed) :
                          LET rel == relpath(Confirmed[k], TARGET_DIRECTORY)
                          IN  IF Updated(o, k)
                              THEN /\ Read(snap', rel) = Read(live, rel)
                                   /\ Cardinality(UpdateRows(Confirmed[k])) = 1
                              ELSE /\ Read(snap', rel) = Read(snap, rel)
                                   /\ UpdateRows(Confirmed[k]) = {} ]_vars

\* C10: on "Yes" every path of the alert that is in the tree and whose update
\* succeeds has its snapshot set to the live content and gets exactly one
\* snapshot_updated_by_user record; a path that is absent keeps its snapshot
\* and gets no record; a path whose update fails gets no record, keeps its
\* snapshot when the failure came before the snapshot file was opened, and is
\* otherwise left with the old snapshot, a partly written one or the new
\* content.  No other snapshot and no file of the tree changes.
C10_ConfirmUpdatesSnapshots ==
    [][ AlertCloses =>
            \A o \in ConfirmOutcomes :
                alert_answer_yes(o) =>
                    /\ OnlyUpdateRows
                    /\ live' = live
                    /\ \A r \in DOMAIN snap \cup DOMAIN snap' :
                          (\A k \in 1..Len(Confirmed) :
                               r # relpath(Confirmed[k], TARGET_DIRECTORY))
                          => Read(snap', r) = Read(snap, r)
                    /\ \A k \in 1..Len(Confirmed) :
                          LET rel == relpath(Confirmed[k], TARGET_DIRECTORY)
                          IN  CASE Updated(o, k) ->
                                     /\ Read(snap', rel) = Read(live, rel)
                                     /\ Cardinality(UpdateRows(Confirmed[k])) = 1
                                [] Read(live, rel) = ABSENT ->
                                     /\ Read(snap', rel) = Read(snap, rel)
                                     /\ UpdateRows(Confirmed[k]) = {}
                                [] OTHER ->
                                     /\ UpdateRows(Confirmed[k]) = {}
                                     /\ Read(snap', rel) \in
                                           { Read(snap, rel), PARTIAL, Read(live, rel) }
                                     /\ o[k] \in {"mkdir_error", "error_before"} =>
                                           Read(snap', rel) = Read(snap, rel) ]_vars

\* An alert over two paths was answered "Yes": one path has its record and its
\* snapshot holds the live content, which is not the content snapshotted at the
\* start; the other path's update failed, it has no record.
C10_Witness ==
    /\ Len(alerts) = 1 /\ popups = <<>> /\ after_alerts = <<>> /\ ~grab
    /\ Len(alerts[1].paths) = 2
    /\ \E k \in 1..2 :
          LET done == alerts[1].paths[k]
              failed == alerts[1].paths[3 - k]
          IN  /\ Len(RowsOf(log_file)) = 1
              /\ LastRow.event_type = "snapshot_updated_by_user"
              /\ LastRow.event_path = <<done>>
              /\ Read(snap, relpath(done, TARGET_DIRECTORY))
                    = Read(live, relpath(done, TARGET_DIRECTORY))
              /\ Read(snap, relpath(done, TARGET_DIRECTORY)) # StartTree[relpath(done, TARGET_DIRECTORY)]
              /\ Read(live, relpath(failed, TARGET_DIRECTORY)) # ABSENT
              /\ Read(snap, relpath(failed, TARGET_DIRECTORY))
                    # Read(live, relpath(failed, TARGET_DIRECTORY))

\* ------------------------------------------------ claims about the filter
\* The scope filter of --files: a token with a directory part names a path
\* relative to the monitored root, any other token names a file by its name,
\* whatever the case; without --files every path is in scope.
InScope(abs_path) ==
    \/ ~args.files.given
    \/ \E i \in 1..Len(args.files.tokens) :
          LET t == args.files.tokens[i]
          IN  IF Len(t) > 1
              THEN normcase(normpath(t), windows)
                      = normcase(normpath(relpath(abs_path, TARGET_DIRECTORY)), windows)
              ELSE Lower(t[1]) = Lower(basename(abs_path))

\* The path an event is about.
EventPath(item) == IF item.src_path # <<>> THEN item.src_path ELSE item.dest_path

\* C1: no event is queued or listed for a path outside the scope filter, no
\* alert names such a path, and no record of the audit log names one, whatever
\* changes of the tree were reported and whatever the operator did.
C1_OutOfScopeUnseen ==
    /\ \A i \in 1..Len(q) : InScope(EventPath(q[i]))
    /\ \A i \in 1..Len(events) : InScope(EventPath(events[i]))
    /\ \A i \in 1..Len(alerts) :
          \A k \in 1..Len(alerts[i].paths) : InScope(alerts[i].paths[k])
    /\ \A i \in 1..Len(log_file.lines) :
          log_file.lines[i].kind = "row" =>
              \A k \in 1..Len(log_file.lines[i].event_path) :
                  InScope(log_file.lines[i].event_path[k])

\* A file outside the filter was created in the tree, which the observer
\* reported, and nothing of it is queued or listed; the one event listed is a
\* modification of the file in scope, and the operator's command on it is in
\* the audit log.
C1_Witness ==
    /\ args.files.given
    /\ ~InScope(AbsOf(<<"b.txt">>))
    /\ isfile(live, <<"b.txt">>)
    /\ q = <<>>
    /\ Len(events) = 1
    /\ events[1].type = "modified"
    /\ events[1].src_path = AbsOf(<<"sub", "a.txt">>)
    /\ Len(RowsOf(log_file)) = 1
    /\ LastRow.event_path = <<AbsOf(<<"sub", "a.txt">>)>>

\* ------------------------------------------ claims about the audit log
\* C11: every event the poll ingests gets a record in the audit log, and every
\* command of the operator (ignore, restore however it ends, the answer to an
\* alert, refresh) gets at least one.
C11_EverythingRecorded ==
    [][ /\ IngestingPoll => Len(Written) >= Len(q)
        /\ (OperatorFree /\ selected_index # 0 /\ mark_ignore("ok")) => Len(Written) >= 1
        /\ RestoreReady =>
              \A f \in RestoreFaults : restore_original(f) => Len(Written) >= 1
        /\ AlertCloses => Len(Written) >= 1
        /\ (OperatorFree /\ refresh_snapshot(TRUE, TRUE, {}, AllOk)) => Len(Written) >= 1
      ]_vars

\* The header line stands first in the log file and nowhere else; a missing
\* file has no lines.
HeaderOnce ==
    /\ ~log_file.exists => log_file.lines = <<>>
    /\ log_file.exists =>
          /\ log_file.lines # <<>>
          /\ \A i \in 1..Len(log_file.lines) :
                (log_file.lines[i].kind = "header") <=> (i = 1)

\* One more call of csv_log on the log as it is now: the lines so far stay, and
\* exactly one record is added at the end.
ProbeRow == Row("modified", <<AbsOf(<<"b.txt">>)>>, "ignored_by_user", "probe")
OneCallOneRecord ==
    /\ IsPrefix(log_file.lines, csv_log(log_file, ProbeRow).lines)
    /\ RowsOf(csv_log(log_file, ProbeRow)) = Append(RowsOf(log_file), ProbeRow)
    /\ Len(csv_log(log_file, ProbeRow).lines) =
          Len(log_file.lines) + (IF log_file.exists THEN 1 ELSE 2)

\* C12: the audit log only grows at its end: the header is written once, by the
\* write that found no log file, every call of csv_log adds exactly one record
\* after the records already there, and no step rewrites or removes a line.
C12_AppendOnly ==
    /\ [](HeaderOnce /\ OneCallOneRecord)
    /\ [][ /\ IsPrefix(log_file.lines, log_file'.lines)
           /\ log_file.exists => log_file'.exists
           /\ \A i \in 1..Len(Written) : Written[i].timestamp_iso = clock
         ]_vars

\* The log holds the header and then two records from two calls of csv_log.
C12_Witness ==
    /\ log_file.exists /\ Len(log_file.lines) = 3
    /\ log_file.lines[1] = HeaderLine
    /\ log_file.lines[2].kind = "row" /\ log_file.lines[3].kind = "row"
    /\ log_file.lines[2].event_path # log_file.lines[3].event_path

\* ------------------------------------------ claims about the order of restore
CopyFaults == { "copy_before", "copy_during", "copy_after" }

\* C18: the duplicate is written only after the live file was overwritten from
\* the snapshot: a restore whose destination directory cannot be created or
\* whose restore copy fails creates no duplicate and leaves the snapshot store
\* unchanged, and the failed copy appends exactly one record,
\* restore_failed_copy_error.
C18_DuplicateAfterRestoreCopy ==
    [][ /\ dups' # dups => RestoreCopies /\ Read(live', RestoreRel) = RestoreSnapshot
        /\ (log_file' # log_file /\ RestoreReady /\ RestoreSnapshot # ABSENT) =>
              \A f \in CopyFaults \cup {"mkdir_error"} :
                  restore_original(f) =>
                      /\ dups' = dups /\ snap' = snap /\ replaced' = replaced
                      /\ f \in CopyFaults =>
                            WrittenOne("restore_failed_copy_error", RestorePath)
      ]_vars

\* A restore copy has failed: its record is the last of the log, and there is
\* no duplicate.
C18_Witness ==
    /\ RowsOf(log_file) # <<>>
    /\ LastRow.action_taken = "restore_failed_copy_error"
    /\ Read(snap, relpath(LastRow.event_path[1], TARGET_DIRECTORY)) # ABSENT
    /\ DOMAIN dups = {} /\ replaced = <<>>

\* ------------------------------------------ claims about the filter's rule
\* Paths the filter is asked about: the files of the tree, the same names in
\* another case, the same basename in another directory, a path written with
\* "." and "..", and a path outside the monitored root.
ProbePaths ==
    { AbsOf(r) : r \in RelFiles } \cup
    { <<"mon", "SUB", "A.TXT">>, <<"mon", "B.TXT">>, <<"mon", "a.txt">>,
      <<"mon", "sub", "b.txt">>, <<"mon", "sub", "c.txt">>,
      <<"mon", ".", "sub", "..", "sub", "a.txt">>, <<"etc", "a.txt">> }

\* The path relative to the monitored root, normalized.
Normalized(abs_path) == normcase(normpath(relpath(abs_path, TARGET_DIRECTORY)), windows)

\* The file the watcher's report of this step is about: the one file that
\* changed, and in a move the source, which is gone afterwards.
Changed == { r \in RelFiles : Read(live', r) # Read(live, r) }
Reported == CHOOSE r \in Changed : Changed = {r} \/ Read(live', r) = ABSENT

\* The report of a change of the tree is queued in this step.
Queued == Len(q') = Len(q) + 1

\* C15: without a filter every path matches; with a filter a path matches
\* exactly when its lower-cased basename is one of the basenames or its
\* normalized path relative to the root is one of the relative paths; a filter
\* that was given and holds neither basenames nor relative paths matches
\* nothing.  The watcher queues the report of a change exactly when the path
\* matches.
C15_FilterMatches ==
    /\ [] /\ FilterIsNone => \A p \in ProbePaths : _is_monitored_path(p)
          /\ ~FilterIsNone =>
                \A p \in ProbePaths :
                    _is_monitored_path(p) <=>
                        \/ Lower(basename(p)) \in BASENAMES
                        \/ Normalized(p) \in RELPATHS
          /\ (~FilterIsNone /\ BASENAMES = {} /\ RELPATHS = {}) =>
                \A p \in ProbePaths : ~_is_monitored_path(p)
    /\ [][ live' # live =>
              (Queued <=>
                  \/ FilterIsNone
                  \/ Lower(basename(AbsOf(Reported))) \in BASENAMES
                  \/ Normalized(AbsOf(Reported)) \in RELPATHS) ]_vars

\* A filter naming B.TXT and sub/../sub/a.txt is in force, a file it matches
\* through the relative path has had its change queued and listed, and the
\* spelling mon/SUB/A.TXT matches on Windows only.
C15_Witness ==
    /\ args.files = MixedFilter
    /\ BASENAMES = {"b.txt"} /\ RELPATHS = {<<"sub", "a.txt">>}
    /\ events # <<>> /\ events[1].src_path = AbsOf(<<"sub", "a.txt">>)
    /\ _is_monitored_path(<<"mon", "B.TXT">>)
    /\ _is_monitored_path(<<"mon", "SUB", "A.TXT">>) <=> windows
    /\ ~_is_monitored_path(<<"mon", "sub", "c.txt">>)

\* ------------------------------------------ claims about the selection
\* C17: the event a command acts on, events[selected_index], is the event the
\* operator selected: as long as the operator selects nothing else, the event
\* under the selection stays the same, whatever is ingested meanwhile.
C17_SelectionFollowsEvent ==
    [][ (selected_index # 0 /\ selected_index' = selected_index) =>
            events'[selected_index'] = events[selected_index] ]_vars

\* ------------------------------------------ claims about the first snapshot
\* The step in which main() takes the first snapshot and opens the window.
Initializes == ~running /\ running'

\* The snapshot file of a file of the tree, by lookup, in a store.
Lookup(rel) == SnapKey(snapshot_path_for(AbsOf(rel)))

Mirror(store, tree) ==
    \A r \in RelFiles :
        Read(store, r) = IF tree[r] # ABSENT /\ InScope(AbsOf(r)) THEN tree[r] ELSE ABSENT

\* C14: Refresh destroys the snapshots only after the operator has confirmed:
\* a declined refresh leaves the store as it is, a snapshot file disappears
\* only in the run of a refresh that was confirmed, and a confirmed refresh
\* whose rebuild completes leaves exactly the in-scope files of the tree as it
\* is now, with their content.
C14_RefreshAfterConfirm ==
    [][ /\ (Top = "askyesno" /\ stack' = pop) => snap' = snap
        /\ (stack' # stack /\ stack'[Len(stack')] = "refresh") => Top = "askyesno"
        /\ (\E r \in RelFiles : Read(snap, r) # ABSENT /\ Read(snap', r) = ABSENT) =>
              Top = "refresh"
        /\ (Top = "refresh" /\ refresh_run(TRUE, {}, AllOk)) => Mirror(snap', live)
      ]_vars

\* A refresh has run after sub/a.txt was rewritten: its snapshot has the new
\* content, and no command that writes a record has run.
C14_Witness ==
    /\ stack = <<"mainloop">> /\ applied # <<>> /\ ~log_file.exists
    /\ live[<<"sub", "a.txt">>] = "v2" /\ Read(snap, <<"sub", "a.txt">>) = "v2"
    /\ Mirror(snap, live)

\* ------------------------------------------ claims about the main thread
\* The frames of the main thread that are file operations of a handler.
InProgress == { i \in 1..Len(stack) : stack[i] \in Mutations }

\* C20: the writes to the snapshot store and the duplicates never overlap: at
\* most one of refresh, snapshot update, restore copy and duplicate save is in
\* progress, nothing else runs on the main thread until it ends, the stores
\* change only in the step of the operation in progress, and the handlers of
\* the operator's clicks start one at a time in the order of the clicks.
C20_OneMutationAtATime ==
    /\ [] /\ Cardinality(InProgress) <= 1
          /\ InProgress # {} => InProgress = {Len(stack)}
          /\ \A i \in 1..Len(applied) : applied[i] = i
          /\ \A i \in 1..Len(tkq) : tkq[i].id = Len(applied) + i
    /\ [][ /\ snap' # snap => Top \in {"refresh", "ignore_update", "confirm_update"}
           /\ dups' # dups => Top = "duplicate_save"
           /\ replaced' # replaced => Top = "restore_copy"
           /\ Len(applied') > Len(applied) => Top \in Loops /\ InProgress = {}
         ]_vars

\* A restore copy is in progress while the callback of an alert and the
\* operator's click on Refresh are waiting for the main thread.
C20_Witness ==
    /\ Top = "restore_copy"
    /\ after_alerts # <<>> /\ tkq # <<>> /\ Head(tkq).cmd = "refresh"

\* ------------------------------------------ claims about the poll
Reverse(s) == [ i \in 1..Len(s) |-> s[Len(s) + 1 - i] ]

\* C19: every queued event is taken by a poll and listed, in the order of the
\* queue (the list is newest first), and no failure of a command (no snapshot,
\* a restore copy or a duplicate save that fails, a snapshot update that
\* fails) stops the polling: the poll stays armed and the main loop runs.
C19_EveryEventListed ==
    /\ [](q # <<>> => <>(q = <<>>))
    /\ [](running /\ poll_armed)
    /\ [][ q' # q =>
              \/ Len(q') = Len(q) + 1 /\ IsPrefix(q, q') /\ events' = events
              \/ q' = <<>> /\ events' = Reverse(q) \o events ]_vars

\* Two events were queued one after the other and are listed, newest first,
\* and a restore has failed in its copy.
C19_Witness ==
    /\ Len(events) = 2 /\ q = <<>>
    /\ events[2].type = "created" /\ events[1].type = "modified"
    /\ RowsOf(log_file) # <<>> /\ LastRow.action_taken = "restore_failed_copy_error"
    /\ running /\ poll_armed

\* ------------------------------------------ claims about decryption
Tools == { "decrypt_file", "decrypt_action" }

\* What a tool does with a file and a password on the disk as it is.
ResultOf(tool, path, password) ==
    IF tool = "decrypt_file"
    THEN decrypt_file_result(disk, path, password)
    ELSE decrypt_action_result(disk, path, password, TRUE)

\* Where a tool writes its output.
OutputOf(tool, path) == IF tool = "decrypt_file" THEN out_path_for(path) ELSE path

\* The files a tool can be given.
InputsOf(tool) ==
    { p \in ToolPaths : isfile_on(disk, p) /\ OutputOf(tool, p) \in ToolPaths }

\* The three cases: the artifact is too short to hold a salt and ciphertext,
\* the output path exists already, the token does not decrypt under the
\* password.
TooShort(path) == disk[path].len <= SALT_SIZE

OutputExists(tool, path) == isfile_on(disk, OutputOf(tool, path))

DecryptionFails(path, password) ==
    /\ ~TooShort(path)
    /\ disk[path].tail.key # << password, disk[path].head >>

CasesOf(tool, path, password) ==
    { c \in { "too short", "output exists", "decryption fails" } :
        \/ c = "too short" /\ TooShort(path)
        \/ c = "output exists" /\ OutputExists(tool, path)
        \/ c = "decryption fails" /\ DecryptionFails(path, password) }

Succeeded == { "ok", "YOUR FILE HAS BEEN DECRYPTED" }

\* In each of the three cases the tool reports an error and leaves every file
\* as it was, and two runs that are in different single cases report
\* different errors.
FailsCleanly(tool) ==
    /\ \A p \in InputsOf(tool), pw \in Passwords :
          CasesOf(tool, p, pw) # {} =>
              /\ ResultOf(tool, p, pw).kind \notin Succeeded
              /\ ResultOf(tool, p, pw).disk = disk
    /\ \A p1 \in InputsOf(tool), p2 \in InputsOf(tool), pw1 \in Passwords, pw2 \in Passwords :
          ( /\ Cardinality(CasesOf(tool, p1, pw1)) = 1
            /\ Cardinality(CasesOf(tool, p2, pw2)) = 1
            /\ CasesOf(tool, p1, pw1) # CasesOf(tool, p2, pw2) ) =>
              ResultOf(tool, p1, pw1).kind # ResultOf(tool, p2, pw2).kind

\* C16: decryption fails with an error of its own, writes no output file and
\* leaves the existing files as they are when the artifact is too short, when
\* the output path exists already and when the token does not decrypt, in
\* crypto_utils.decrypt_file and in the decryption window alike; and no run
\* that reports a failure has changed a file.
C16_DecryptFailsCleanly ==
    /\ [](\A tool \in Tools : FailsCleanly(tool))
    /\ [][ (report'.tool \in Tools /\ report'.kind \notin Succeeded) => disk' = disk ]_vars

\* The same for crypto_utils.decrypt_file alone.
DecryptFileFailsCleanly == FailsCleanly("decrypt_file")

\* decrypt_file has refused an artifact that decrypts because its output path
\* was taken, and the file there is as it was.
DecryptFileRefused ==
    /\ report.tool = "decrypt_file" /\ report.kind = "FileExistsError"
    /\ report.path = <<"g">> /\ disk[<<"g", ".dec">>] = Plain("older")

\* ------------------------------------------ claims about the two threads
\* A callback of the watcher has queued its event in this step.
WatcherPuts == Len(q') = Len(q) + 1

EventTypes == { "created", "modified", "deleted", "moved" }

\* The event as _enqueue builds it: the time, the type, and the two paths made
\* absolute (the destination is the empty string unless the event is a move).
NormalizedEvent(item) ==
    /\ DOMAIN item = { "time", "type", "src_path", "dest_path" }
    /\ item.time = clock
    /\ item.type \in EventTypes
    /\ item.src_path # <<>> /\ item.src_path = abspath(item.src_path)
    /\ IsPrefix(TARGET_DIRECTORY, item.src_path)
    /\ item.dest_path = abspath(item.dest_path)
    /\ item.dest_path # <<>> <=> item.type = "moved"
    /\ _is_monitored_path(item.src_path)

\* C21: a callback of the watcher does one thing to the state the threads
\* share: it puts one normalized event at the end of the queue, or nothing when
\* the path is out of scope.  The window, last_alert_ts and the list of events
\* change only in statements of poll_queue, which alone takes events off the
\* queue, however the callbacks fall between those statements.
C21_WatcherOnlyProduces ==
    [][ /\ WatcherPuts =>
              /\ q' = Append(q, q'[Len(q')])
              /\ NormalizedEvent(q'[Len(q')])
              /\ UNCHANGED << events, mod_deque, last_alert_ts, recorded, alerts, after_alerts,
                              popups, grab, selected_index, snap, dups, log_file, poll_armed,
                              running, dispatcher >>
        /\ (live' # live /\ ~WatcherPuts) =>
              UNCHANGED << q, events, mod_deque, last_alert_ts, recorded, alerts, after_alerts,
                           popups, grab, selected_index, snap, dups, log_file, poll_armed,
                           running, dispatcher >>
        /\ (events' # events \/ mod_deque' # mod_deque \/ recorded' # recorded) =>
              /\ Top \in PollFrames /\ q # <<>> /\ q' = Tail(q)
              /\ events' = << Head(q) >> \o events
              /\ UNCHANGED << last_alert_ts, alerts >>
        /\ (last_alert_ts' # last_alert_ts \/ alerts' # alerts) =>
              /\ Top = "poll_changed" /\ q = <<>> /\ stack' = pop
              /\ UNCHANGED << events, mod_deque, recorded >>
        /\ Len(q') < Len(q) => Top \in PollFrames
      ]_vars

\* An event of the watcher waits in the queue while poll_queue is in its loop
\* with an earlier event already taken, listed and recorded in the window.
C21_Witness ==
    /\ Top = "poll_changed"
    /\ Len(events) = 1 /\ Len(q) = 1
    /\ mod_deque # <<>>
    /\ q[1].time = clock /\ q[1].src_path # events[1].src_path

\* ------------------------------------------ claims about the cooldown
\* An alert has fired and the operator has not answered it: its callback is
\* pending or its window is open.
Unanswered == after_alerts # <<>> \/ popups # <<>>

\* The modifications among the events of a queue, as the poll records them.
Tracked(queue) ==
    LET kept == SelectSeq(queue, LAMBDA ev : ev.type \in {"modified", "created", "moved"})
    IN  [ i \in 1..Len(kept) |-> << clock, kept[i].src_path >> ]

\* The operator answers the alert window on top.
Answers == Len(popups') < Len(popups)

\* C22: the cooldown runs whether or not an alert was answered.  While an
\* alert is unanswered the poll stays armed; a poll that takes events lists
\* them and records their modifications in the window as always, and fires a
\* new alert exactly when the window holds at least the threshold and more
\* than the cooldown has passed since the last alert, answered or not; an
\* answer changes neither last_alert_ts nor the window.
C22_CooldownIgnoresAnswer ==
    /\ [](Unanswered => running /\ poll_armed)
    /\ [][ /\ IngestingPoll =>
                 /\ events' = Reverse(q) \o events
                 /\ recorded' = recorded \o Tracked(q)
                 /\ IF /\ Cardinality(WindowOf(recorded', clock)) >= SPIKE_THRESHOLD
                       /\ clock - last_alert_ts > ALERT_COOLDOWN_SEC
                    THEN /\ last_alert_ts' = clock
                         /\ Len(alerts') = Len(alerts) + 1
                         /\ Len(after_alerts') = Len(after_alerts) + 1
                         /\ popups' = popups
                    ELSE UNCHANGED << last_alert_ts, alerts, after_alerts, popups >>
           /\ Answers => UNCHANGED << last_alert_ts, mod_deque, recorded, alerts, after_alerts,
                                      events, q, poll_armed >>
         ]_vars

\* A second alert has fired, one second more than the cooldown after the
\* first, while the window of the first is still open and no answer has ever
\* been given.
C22_Witness ==
    /\ Len(alerts) = 2 /\ alerts[2].at - alerts[1].at = ALERT_COOLDOWN_SEC + 1
    /\ Len(popups) = 1 /\ Len(after_alerts) = 1
    /\ ~log_file.exists /\ snap = create_initial_snapshot(StartTree, NoFiles, AllOk)
    /\ Len(events) = 2

\* ------------------------------------------ claims about the life of a snapshot
\* The paths of the alert whose window is on top.
Payload == IF popups = <<>> THEN {} ELSE { popups[Len(popups)][k] : k \in 1..Len(popups[Len(popups)]) }

\* The step is the snapshot update of an ignore, or of a confirmation, for the
\* file r of the tree.
UpdateOf(r) ==
    \/ Top = "ignore_update" /\ events[selected_index].src_path = AbsOf(r)
    \/ Top = "confirm_update" /\ AbsOf(r) \in Payload

\* C23: a snapshot file, once there, stays: ingestion, alerts, ignore,
\* confirmation and restore never remove it.  Its content changes only in the
\* snapshot update of an ignore or a confirmation of the same path, which
\* leaves the file's current content or what the interrupted copy wrote, or in
\* the run of a refresh, and a refresh runs only from its dialog answered Yes.
C23_SnapshotStays ==
    [][ /\ \A r \in RelFiles :
              Read(snap, r) # ABSENT =>
                  /\ Read(snap', r) = ABSENT => Top = "refresh"
                  /\ Read(snap', r) # Read(snap, r) =>
                        \/ Top = "refresh"
                        \/ UpdateOf(r) /\ Read(snap', r) \in { Read(live, r), PARTIAL }
        /\ (stack' # stack /\ stack'[Len(stack')] = "refresh") => Top = "askyesno"
        /\ (Len(q') < Len(q) \/ after_alerts' # after_alerts \/ replaced' # replaced
              \/ dups' # dups \/ Top \in {"wait_window", "messagebox", "askyesno"}) =>
              snap' = snap
      ]_vars

\* sub/a.txt was modified, the alert was answered, an ignore has replaced its
\* snapshot with the new content and a restore has run; the snapshot of b.txt
\* is the one taken at the start.
C23_Witness ==
    /\ Read(snap, <<"sub", "a.txt">>) = "v2" /\ Read(snap, <<"b.txt">>) = "v1"
    /\ Len(replaced) = 1 /\ Len(applied) = 2 /\ alerts # <<>> /\ popups = <<>>
    /\ stack = <<"mainloop">>

\* ------------------------------------------ claims about Ignore
\* Tk starts the handler of a click on Ignore in this step.
IgnoreStarts == Len(applied') > Len(applied) /\ Head(tkq).cmd = "ignore"

\* The path of the event under the selection.
IgnorePath == events[selected_index].src_path

IgnoreRel == LiveKey(IgnorePath)

\* C24: Ignore with an event selected appends exactly one record,
\* ignored_by_user, for the event's path, before it touches the snapshot
\* store.  Then, when the path is a file of the tree, it copies the file as it
\* is now onto the path's snapshot file, and a copy that completes leaves the
\* snapshot with the file's current content and every other snapshot as it
\* was; when the path is no file, the store is unchanged.  Nothing but an
\* ignore changes the store here, and a restore writes the snapshot's content
\* to the path: after an ignore, the ignored content.
C24_IgnoreAdoptsCurrent ==
    [][ /\ (IgnoreStarts /\ selected_index # 0) =>
              /\ WrittenOne("ignored_by_user", IgnorePath)
              /\ Written[1].event_type = events[selected_index].type
              /\ snap' = snap
              /\ stack' = push("ignore_update")
        /\ (IgnoreStarts /\ selected_index = 0) => log_file' = log_file /\ snap' = snap
        /\ (Top = "ignore_update" /\ stack' # stack) =>
              /\ log_file' = log_file /\ live' = live /\ stack' = pop
              /\ IF isfile(live, IgnoreRel)
                 THEN /\ OnlyChanges(snap, snap', IgnoreRel)
                      /\ \A o \in UpdateOutcomes :
                            ignore_update(o) =>
                                /\ o = "ok" => Read(snap', IgnoreRel) = Read(live, IgnoreRel)
                                /\ o \in {"mkdir_error", "error_before"} => snap' = snap
                 ELSE snap' = snap
        /\ snap' # snap => Top = "ignore_update"
        /\ (Top = "restore_copy" /\ stack' # stack) =>
              Read(live', RestoreRel) = Read(snap, RestoreRel) /\ snap' = snap
      ]_vars

\* b.txt was created with one content and the event selected; the file was
\* then rewritten, Ignore made the rewritten content its snapshot, and Restore
\* wrote that content back.
C24_Witness ==
    /\ selected_index # 0 /\ events[selected_index].type = "created"
    /\ IgnorePath = AbsOf(<<"b.txt">>)
    /\ Len(q) + Len(events) = 2
    /\ \E ev \in { q[i] : i \in 1..Len(q) } \cup { events[i] : i \in 1..Len(events) } :
          ev.type = "modified" /\ ev.src_path = IgnorePath
    /\ Read(snap, <<"b.txt">>) = "v2" /\ Read(live, <<"b.txt">>) = "v2"
    /\ Len(replaced) = 1 /\ replaced[1].path = IgnorePath
    /\ Len(RowsOf(log_file)) = 2
    /\ RowsOf(log_file)[1].action_taken = "ignored_by_user"
    /\ RowsOf(log_file)[2].action_taken = "restored_and_duplicated"

\* Ignore on a deletion: the record is written and the snapshot of the deleted
\* file is still the one taken at the start.
C24_WitnessGone ==
    /\ selected_index # 0 /\ events[selected_index].type = "deleted"
    /\ ~isfile(live, IgnoreRel) /\ Read(snap, IgnoreRel) = "v1"
    /\ RowsOf(log_file) # <<>> /\ LastRow.action_taken = "ignored_by_user"
    /\ stack = <<"mainloop">> /\ applied # <<>>

\* ------------------------------------------ claims about what Restore leaves alone
RestoreRecords == { "restore_failed_no_snapshot", "restore_failed_copy_error",
                    "restore_but_duplicate_failed", "restored_and_duplicated" }

\* A step in which Restore did something: it wrote one of its records, or its
\* restore copy completed.
RestoreActs ==
    \/ replaced' # replaced
    \/ Written # <<>> /\ Written[1].action_taken \in RestoreRecords

\* What Restore has no business with: the snapshot store, the window and its
\* history, the alert state, the list of events with the queue and the selection.
RestoreLeaves ==
    UNCHANGED << snap, mod_deque, recorded, last_alert_ts, alerts, after_alerts, popups, grab,
                 events, q, selected_index, poll_armed, running >>

\* C25: Restore, however it ends (no selection or no source path, no snapshot
\* file, the destination directory not created, the restore copy failing, the
\* duplicate directory or copy failing, success), leaves the snapshot store,
\* the window, the alert state and the list of events as they were.  A restore
\* that ends before its first record (no selection, no source path, the
\* destination directory not created) changes nothing at all.
C25_RestoreFrame ==
    [][ RestoreActs => RestoreLeaves ]_vars

\* A restore has ended with its duplicate copy failed: the file is restored,
\* the record is written, and the modification that was restored is still in
\* the window and in the list, the snapshot still in the store.
C25_Witness ==
    /\ RowsOf(log_file) # <<>> /\ LastRow.action_taken = "restore_but_duplicate_failed"
    /\ Len(replaced) = 1 /\ replaced[1].was = "v2"
    /\ Len(mod_deque) = 1 /\ mod_deque[1][2] = replaced[1].path
    /\ Len(events) = 1 /\ selected_index = 1
    /\ Read(snap, <<"sub", "a.txt">>) = "v1" /\ Read(live, <<"sub", "a.txt">>) = "v1"

====
